---------------------------- MODULE Spec2Model ----------------------------
(***************************************************************************)
(* Model of the parallel analysis backend (src/unnamed/part_001): the      *)
(* request handler handleAnalyze, the batch workers handleBatchProcessing, *)
(* and the job/batch records they coordinate through in JOBS_TABLE.        *)
(*                                                                         *)
(* One submission (one jobId) is modelled.  JOBS_TABLE and CACHE_TABLE are *)
(* the only shared state; every store command (Put/Update/Get) is one      *)
(* atomic step, and the JavaScript between two awaits belongs to the step  *)
(* of the await that precedes it.                                          *)
(***************************************************************************)
EXTENDS Integers, Sequences, FiniteSets, TLC

(* ---------------------------- constants -------------------------------- *)

BATCH_SIZE == 20

MAX_PARALLEL_LAMBDAS == 50

(* ----------------------------- bounds ---------------------------------- *)

\* Largest game list submitted in the concurrency specification.
MaxGames == 41

\* Failing cache commands injected in one run.
MaxCacheFaults == 1

\* The positions, in a list of games, of the lookups that may fail.
FailingReads == {1, 2, 3}

\* Largest game list submitted in the partition specification.
MaxPartitionGames == 1210

\* Faults (a failing store command, an engine that does not start)
\* injected in one run.
MaxFaults == 1

(* --------------------------- the inputs -------------------------------- *)

\* A game record of the request body: gameData.url, gameData.player_color.
Game(g) == [url |-> g, player_color |-> "white"]

\* The submitted list: n distinct games in submission order.
GameList(n) == [g \in 1..n |-> Game(g)]

\* Sizes of the submitted list: empty, one batch, two batches, three.
GameCounts == {0, 1, BATCH_SIZE + 1, MaxGames}

\* Games that may be absent from the cache when the request arrives (the
\* first two games of the first batch, the first game of the later ones).
UncachedCandidates == {1, 2, BATCH_SIZE + 1, 2 * BATCH_SIZE + 1}

\* What a (depth-bounded, hence reproducible) analysis of the game yields:
\* one mistake record for every fourth game, none for the others.
Mistake(game) ==
    [game_url |-> game.url, player_color |-> game.player_color, move_number |-> 3]

GameMistakes(game) == IF game.url % 4 = 1 THEN <<Mistake(game)>> ELSE <<>>

(* --------------------------- the store --------------------------------- *)

\* Keys of JOBS_TABLE: the job item and its batch items `${jobId}#batch-${i}`.
JobKey == <<"job">>

BatchKey(batchIndex) == <<"job", batchIndex>>

CacheKeyIgnoringColor(game) == <<game.url, "white">>

\* `${gameUrl}:${playerColor}` (a game without url has no key: HasUrl).
CacheKey(game) == <<game.url, game.player_color>>

Has(table, key) == key \in DOMAIN table

\* PutCommand: the whole item is written.
Put(table, key, item) ==
    [k \in DOMAIN table \cup {key} |-> IF k = key THEN item ELSE table[k]]

UpdateAsPut(table, key, attrs) ==
    [k \in DOMAIN table \cup {key} |-> IF k = key THEN attrs ELSE table[k]]

\* UpdateCommand with a SET expression: only the named attributes are
\* written; an item that does not exist is created with just those.
Update(table, key, attrs) ==
    LET old == IF Has(table, key) THEN table[key] ELSE [x \in {} |-> 0]
        new == [a \in DOMAIN old \cup DOMAIN attrs |->
                   IF a \in DOMAIN attrs THEN attrs[a] ELSE old[a]]
    IN  Put(table, key, new)

Min(a, b) == IF a <= b THEN a ELSE b

\* array.slice(from, to) with 0-based from <= to.
Slice(array, from, to) == SubSeq(array, from + 1, Min(to, Len(array)))

RECURSIVE Flatten(_)
Flatten(lists) ==
    IF lists = <<>> THEN <<>> ELSE Head(lists) \o Flatten(Tail(lists))

(* ------------------------- pure functions ------------------------------ *)

RECURSIVE SplitFrom(_, _, _)
SplitFrom(array, batchSize, i) ==
    IF i >= Len(array) THEN <<>>
    ELSE <<Slice(array, i, i + batchSize)>> \o SplitFrom(array, batchSize, i + batchSize)

splitIntoBatches(array, batchSize) == SplitFrom(array, batchSize, 0)

CeilAsFloor(n, d) == n \div d

\* Math.ceil(n / d) for n >= 0, d > 0.
Ceil(n, d) == (n + d - 1) \div d

\* handleAnalyze, lines 768-777: split by BATCH_SIZE, and again by
\* ceil(N / MAX_PARALLEL_LAMBDAS) when that gave too many batches.
FinalBatches(gs) ==
    LET batches == splitIntoBatches(gs, BATCH_SIZE)
    IN  IF Len(batches) > MAX_PARALLEL_LAMBDAS
        THEN splitIntoBatches(gs, Ceil(Len(gs), MAX_PARALLEL_LAMBDAS))
        ELSE batches

\* gameData.url of a record that has none (undefined or empty: falsy).
NoUrl == 0

\* `gameUrl ? ... : null` of lines 612 and 734, `if (gameData.url)` of line 641.
HasUrl(game) == game.url # NoUrl

\* getCachedAnalysis hit test: `cacheKey` and `cached && cached.mistakes`.
CacheHit(cache, game) == HasUrl(game) /\ Has(cache, CacheKey(game))

\* The cache as a game's lookup sees it when its GetCommand fails:
\* getCachedAnalysis returns null (lines 464-467).
ReadFailing(cache, game) ==
    [k \in DOMAIN cache \ {CacheKey(game)} |-> cache[k]]

\* Lines 641-646 and 470-484: the result is written under the game's key,
\* if the game has a url.
cacheAnalysis(cache, game, mistakes) ==
    IF HasUrl(game) THEN Put(cache, CacheKey(game), [mistakes |-> mistakes]) ELSE cache

\* handleAnalyze, lines 728-749: the quick check stops at the first miss.
RECURSIVE QuickCheckPrepending(_, _, _, _)
QuickCheckPrepending(gs, cache, i, acc) ==
    IF i > Len(gs) THEN [allCached |-> TRUE, cachedMistakes |-> acc]
    ELSE IF CacheHit(cache, gs[i])
         THEN QuickCheckPrepending(gs, cache, i + 1, cache[CacheKey(gs[i])].mistakes \o acc)
         ELSE [allCached |-> FALSE, cachedMistakes |-> acc]

QuickCheckUnshift(gs, cache) == QuickCheckPrepending(gs, cache, 1, <<>>)

RECURSIVE QuickCheckFrom(_, _, _, _)
QuickCheckFrom(gs, cache, i, acc) ==
    IF i > Len(gs) THEN [allCached |-> TRUE, cachedMistakes |-> acc]
    ELSE IF CacheHit(cache, gs[i])
         THEN QuickCheckFrom(gs, cache, i + 1, acc \o cache[CacheKey(gs[i])].mistakes)
         ELSE [allCached |-> FALSE, cachedMistakes |-> acc]

QuickCheck(gs, cache) == QuickCheckFrom(gs, cache, 1, <<>>)

\* handleBatchProcessing, lines 605-625: cached mistakes are collected,
\* the other games are queued for the engine.
RECURSIVE CheckCacheFrom(_, _, _, _, _)
CheckCacheFrom(gs, cache, i, allMistakes, gamesToAnalyze) ==
    IF i > Len(gs) THEN [allMistakes |-> allMistakes, gamesToAnalyze |-> gamesToAnalyze]
    ELSE IF CacheHit(cache, gs[i])
         THEN CheckCacheFrom(gs, cache, i + 1,
                             allMistakes \o cache[CacheKey(gs[i])].mistakes, gamesToAnalyze)
         ELSE CheckCacheFrom(gs, cache, i + 1, allMistakes, Append(gamesToAnalyze, gs[i]))

CheckCache(gs, cache) == CheckCacheFrom(gs, cache, 1, <<>>, <<>>)

(* ----------------------------- state ----------------------------------- *)

VARIABLES
    games,        \* body.games of the request
    jobsTable,    \* JOBS_TABLE: key -> item
    cacheTable,   \* CACHE_TABLE: cache key -> item
    submitCache,  \* CACHE_TABLE as it was when the request arrived
    analyzePc,    \* position of handleAnalyze
    response,     \* what handleAnalyze returned
    finalBatches, \* handleAnalyze's finalBatches (<<>> until computed)
    cachedMistakes, \* handleAnalyze's cachedMistakes
    chain,        \* position of each `invocations` callback, by batch index
    wpc,          \* position of each batch worker, by batch index
    wLocal,       \* each worker's locals: allMistakes, gamesToAnalyze, i
    wAgg,         \* aggregateJobResults' locals of each worker: allMistakes, i,
                  \* totalBatches
    engine,       \* each worker's StockfishEngine: "none", "running", "quit"
    poll,         \* handleStatus: position, the job it read, its response
    ag,           \* one call of analyzeGame: its argument, locals and result
    legacy,       \* handleAsyncProcessing / processGames: position, locals,
                  \* engine
    faults,       \* faults injected so far
    incremented,  \* workers whose counter increment was applied
    triggered,    \* workers whose increment result passed the trigger test
    stored,       \* mistakes each worker handed to completeBatch's first write
    stockfish,    \* one StockfishEngine object: its fields, the closure of
                  \* its onMessage handler, the promises it handed out
    request,      \* the backend that received POST /analyze and what kind
                  \* of value body.games is
    cacheFaults,  \* failing cache commands injected so far
    client        \* the browser: analyzeAllGames / pollForResults, the module
                  \* variables of gameAnalyzer.js and localStorage

vars == <<games, jobsTable, cacheTable, submitCache, analyzePc, response, finalBatches,
          cachedMistakes, chain,
          wpc, wLocal, wAgg, engine, legacy, faults, incremented, triggered, stored,
          poll, ag, stockfish, request, cacheFaults, client>>

\* Batch indices are 0-based, as in the code.
MaxBatchCount == Ceil(MaxGames, BATCH_SIZE)

Workers == 0 .. (MaxBatchCount - 1)

Batches == 0 .. (Len(finalBatches) - 1)

\* A response of handleAnalyze: the status code and, of the body, whether it
\* carries a jobId, its status and its mistakes.
Response(statusCode, hasJobId, status, mistakes) ==
    [statusCode |-> statusCode, jobId |-> hasJobId, status |-> status,
     mistakes |-> mistakes]

NoResponse == Response(0, FALSE, "", <<>>)

\* The body of a handleStatus response (statusCode 0: no response yet).
StatusResponse(statusCode, status, currentGame, totalGames, completedBatches, totalBatches, mistakesFound, mistakes) ==
    [statusCode |-> statusCode, status |-> status, currentGame |-> currentGame,
     totalGames |-> totalGames, completedBatches |-> completedBatches,
     totalBatches |-> totalBatches, mistakesFound |-> mistakesFound,
     mistakes |-> mistakes]

NoStatusResponse == StatusResponse(0, "", 0, 0, 0, 0, 0, <<>>)

\* No status request was received.
NoPoll == [pc |-> "idle", job |-> <<>>, response |-> NoStatusResponse]

\* A value that may be null: <<>> is null, <<v>> is the value v.
Null == <<>>

Some(v) == <<v>>

\* No call of analyzeGame is followed step by step.
NoAnalysis ==
    [pc |-> "none", backend |-> "", player_color |-> "", loaded |-> FALSE,
     history |-> <<>>, chess |-> <<>>, i |-> 0, prevEval |-> Null,
     prevWhite |-> Null, bestMoveBefore |-> Null, moveSequence |-> <<>>,
     mistakes |-> <<>>, calls |-> 0, nulls |-> 0, suppressed |-> 0,
     returned |-> Null]

InitLocal == [allMistakes |-> <<>>, gamesToAnalyze |-> <<>>, i |-> 0]

\* No asyncProcessing event was received.
NoLegacy ==
    [pc |-> "none", allMistakes |-> <<>>, gamesToAnalyze |-> <<>>, i |-> 0,
     engine |-> "none"]

InitAgg == [allMistakes |-> <<>>, i |-> 0, totalBatches |-> 0]

\* The constructor of StockfishEngine, lines 25-30: no process, not ready,
\* no handler; no promise handed out yet.
NoStockfish ==
    [process |-> "null", ready |-> FALSE, onMessage |-> "none",
     init |-> "none", stdin |-> <<>>, stdout |-> <<>>, sideToMove |-> "w",
     evalScore |-> Null, bestMove |-> Null, currentDepth |-> 0,
     resolved |-> Null, calls |-> 0]

\* body.games as line 719 reads it: the kinds of value that the tests of
\* line 721 tell apart.
GamesValues == {"undefined", "null", "empty string", "string", "object", "array"}

ArrayRequest == [backend |-> "parallel", games |-> "array"]

\* The cache holds, for every game analysed before, what that analysis gave.
InitCache(gs, uncached) ==
    LET cachedGames == {gs[i] : i \in {j \in 1..Len(gs) : j \notin uncached}}
    IN  [k \in {CacheKey(game) : game \in {g \in cachedGames : HasUrl(g)}} |->
            [mistakes |-> GameMistakes([url |-> k[1], player_color |-> k[2]])]]

\* gameAnalyzer.js before analyzeAllGames is called: the module variables
\* of lines 348-350 and an empty localStorage.  `aborted` is the state of the
\* signal of the run's AbortController, `after` the place fetchPartialResults
\* was called from.
NoClient ==
    [pc |-> "none", isAnalyzing |-> FALSE, analysisAbortController |-> "null",
     aborted |-> FALSE, existingMistakes |-> <<>>, lastSavedMistakeCount |-> 0,
     after |-> "none", stage |-> "none", returned |-> Null,
     games |-> <<>>, mistakes |-> <<>>, progress |-> {}, polls |-> 0, runs |-> 0]

\* The backend when the request with body.games = gs arrives.
ServerStart(gs, cache, req) ==
    /\ games = gs
    /\ request = req
    /\ stockfish = NoStockfish
    /\ cacheFaults = 0
    /\ cacheTable = cache
    /\ submitCache = cache
    /\ jobsTable = [k \in {} |-> 0]
    /\ analyzePc = "start"
    /\ response = NoResponse
    /\ finalBatches = <<>>
    /\ cachedMistakes = <<>>
    /\ chain = [w \in Workers |-> "none"]
    /\ wpc = [w \in Workers |-> "idle"]
    /\ wLocal = [w \in Workers |-> InitLocal]
    /\ wAgg = [w \in Workers |-> InitAgg]
    /\ engine = [w \in Workers |-> "none"]
    /\ legacy = NoLegacy
    /\ poll = NoPoll
    /\ faults = 0
    /\ incremented = {}
    /\ triggered = {}
    /\ stored = [w \in Workers |-> <<>>]

\* The state in which the request with body.games = gs arrives, sent by
\* another caller than the browser client.
StartState(gs, cache, req) ==
    /\ ServerStart(gs, cache, req)
    /\ client = NoClient

\* A POST /analyze whose body.games is an array, at the parallel backend.
SystemInit(gs, cache) == StartState(gs, cache, ArrayRequest)

InitState(gs, cache) ==
    /\ SystemInit(gs, cache)
    /\ ag = NoAnalysis

Init ==
    \E n \in GameCounts : \E uncached \in SUBSET UncachedCandidates :
        InitState(GameList(n), InitCache(GameList(n), uncached))

(* -------------------------- store commands ----------------------------- *)

\* createJob, lines 289-308.
createJob(table, totalGames, totalBatches) ==
    Put(table, JobKey,
        [status |-> "processing", currentGame |-> 0, totalGames |-> totalGames,
         totalBatches |-> totalBatches, completedBatches |-> 0,
         mistakesFound |-> 0, mistakes |-> <<>>])

\* createBatch, lines 311-331.
createBatch(table, batchIndex, gamesCount) ==
    Put(table, BatchKey(batchIndex),
        [batchIndex |-> batchIndex, status |-> "processing", gamesProcessed |-> 0,
         totalGames |-> gamesCount, mistakesFound |-> 0, mistakes |-> <<>>])

updateBatchProgressRemaining(table, batchIndex, gamesProcessed, mistakes) ==
    Update(table, BatchKey(batchIndex),
           [gamesProcessed |-> table[BatchKey(batchIndex)].totalGames - gamesProcessed,
            mistakesFound |-> mistakes])

\* updateBatchProgress, lines 334-350.
updateBatchProgress(table, batchIndex, gamesProcessed, mistakes) ==
    Update(table, BatchKey(batchIndex),
           [gamesProcessed |-> gamesProcessed, mistakesFound |-> mistakes])

MarkBatchCompletedCountOnly(table, batchIndex, mistakes) ==
    Update(table, BatchKey(batchIndex), [mistakesFound |-> Len(mistakes)])

\* completeBatch's first command, lines 358-370.
MarkBatchCompleted(table, batchIndex, mistakes) ==
    Update(table, BatchKey(batchIndex),
           [status |-> "completed", mistakes |-> mistakes,
            mistakesFound |-> Len(mistakes)])

IncrementCompletedSetOne(table) == Update(table, JobKey, [completedBatches |-> 1])

\* completeBatch's second command, lines 373-382: one atomic
\* SET completedBatches = completedBatches + 1.
IncrementCompleted(table) ==
    Update(table, JobKey, [completedBatches |-> table[JobKey].completedBatches + 1])

IncrementResultAllOld(table) == table[JobKey]

\* ReturnValues: 'ALL_NEW': the item as it is after the update.
IncrementResult(table) == IncrementCompleted(table)[JobKey]

AllBatchesCompleteFirst(job) == job.completedBatches >= 1

\* completeBatch's trigger test, line 386.
AllBatchesComplete(job) == job.completedBatches >= job.totalBatches

\* aggregateJobResults' final command, lines 410-422, and saveJobResults,
\* lines 425-444: the same SET expression.
MarkJobCompleted(table, mistakes) ==
    Update(table, JobKey,
           [status |-> "completed", mistakes |-> mistakes,
            mistakesFound |-> Len(mistakes)])

saveJobResults(table, mistakes) == MarkJobCompleted(table, mistakes)

MarkBatchErrorCounted(table, batchIndex) ==
    IncrementCompleted(
        Update(table, BatchKey(batchIndex), [status |-> "error", errorMessage |-> "error"]))

\* updateJobProgress, lines 267-287, with the default status 'processing'.
updateJobProgress(table, current, total, mistakes) ==
    Update(table, JobKey,
           [status |-> "processing", currentGame |-> current, totalGames |-> total,
            mistakesFound |-> mistakes])

\* The catch block of handleAsyncProcessing, lines 695-705.
MarkJobError(table) ==
    Update(table, JobKey, [status |-> "error", errorMessage |-> "error"])

\* The catch block of handleBatchProcessing, lines 671-681.
MarkBatchError(table, batchIndex) ==
    Update(table, BatchKey(batchIndex), [status |-> "error", errorMessage |-> "error"])

(* --------------------------- handleAnalyze ----------------------------- *)

WorkerVars == <<legacy, poll, ag, stockfish, request, cacheFaults, client, submitCache, wpc, wLocal, wAgg, engine, incremented, triggered, stored>>

\* `!games` of line 721: undefined, null and the empty string are falsy.
Truthy(value) == value \notin {"undefined", "null", "empty string"}

NoGamesProvidedUnlessEmpty(req, gs) == ~Truthy(req.games) \/ req.games # "array"

\* Line 721 (lambda/index.js line 325):
\* !games || !Array.isArray(games) || games.length === 0.
NoGamesProvided(req, gs) ==
    ~Truthy(req.games) \/ req.games # "array" \/ Len(gs) = 0

\* Lines 721-726: no games, a 400 and nothing else.
AnalyzeReject ==
    /\ analyzePc = "start"
    /\ request.backend = "parallel"
    /\ NoGamesProvided(request, games)
    /\ analyzePc' = "returned"
    /\ response' = Response(400, FALSE, "", <<>>)
    /\ UNCHANGED <<games, jobsTable, cacheTable, finalBatches, cachedMistakes, chain,
                   faults, WorkerVars>>

\* Lines 728-777: the quick cache check, then either the fast path or the
\* partition into finalBatches.
AnalyzeQuickCheck ==
    /\ analyzePc = "start"
    /\ request.backend = "parallel"
    /\ ~NoGamesProvided(request, games)
    /\ LET qc == QuickCheck(games, cacheTable)
       IN  /\ cachedMistakes' = qc.cachedMistakes
           /\ IF qc.allCached
              THEN /\ analyzePc' = "fastCreateJob"
                   /\ UNCHANGED finalBatches
              ELSE /\ analyzePc' = "createJob"
                   /\ finalBatches' = FinalBatches(games)
    /\ UNCHANGED <<games, jobsTable, cacheTable, response, chain, faults, WorkerVars>>

\* Lines 728-777 when the GetCommand of the first lookup of one game fails:
\* the game counts as not cached.
AnalyzeCacheReadFault ==
    /\ analyzePc = "start"
    /\ request.backend = "parallel"
    /\ ~NoGamesProvided(request, games)
    /\ cacheFaults < MaxCacheFaults
    /\ cacheFaults' = cacheFaults + 1
    /\ \E j \in FailingReads \cap 1..Len(games) :
       \E cache \in {ReadFailing(cacheTable, games[j])} :
          LET qc == QuickCheck(games, cache)
          IN  /\ \A k \in 1..j : CacheHit(cacheTable, games[k])
              /\ \A k \in 1..(j - 1) : CacheKey(games[k]) # CacheKey(games[j])
              /\ cachedMistakes' = qc.cachedMistakes
              /\ analyzePc' = "createJob"
              /\ finalBatches' = FinalBatches(games)
    /\ UNCHANGED <<games, jobsTable, cacheTable, response, chain, faults, legacy,
                   poll, ag, stockfish, request, submitCache, wpc, wLocal, wAgg,
                   engine, incremented, triggered, stored, client>>

\* Line 754: createJob(jobId, games.length, 1).
FastCreateJob ==
    /\ analyzePc = "fastCreateJob"
    /\ jobsTable' = createJob(jobsTable, Len(games), 1)
    /\ analyzePc' = "fastSave"
    /\ UNCHANGED <<games, cacheTable, response, finalBatches, cachedMistakes, chain,
                   faults, WorkerVars>>

\* Lines 755-765: saveJobResults and the 200 response.
FastSave ==
    /\ analyzePc = "fastSave"
    /\ jobsTable' = saveJobResults(jobsTable, cachedMistakes)
    /\ analyzePc' = "returned"
    /\ response' = Response(200, TRUE, "completed", cachedMistakes)
    /\ UNCHANGED <<games, cacheTable, finalBatches, cachedMistakes, chain,
                   faults, WorkerVars>>

ChainStartInvokesFirst == "invoke"

\* Lines 785-787: a callback begins with createBatch; the invocation of
\* the worker follows its await.
ChainStart == "createBatch"

\* Lines 779-785: createJob, then every `invocations` callback is started.
CreateJob ==
    /\ analyzePc = "createJob"
    /\ jobsTable' = createJob(jobsTable, Len(games), Len(finalBatches))
    /\ analyzePc' = "dispatch"
    /\ chain' = [w \in Workers |-> IF w \in Batches THEN ChainStart ELSE "none"]
    /\ UNCHANGED <<games, cacheTable, response, finalBatches, cachedMistakes,
                   faults, WorkerVars>>

\* Line 787: createBatch(jobId, index, batch.length).
CreateBatch(w) ==
    /\ chain[w] = "createBatch"
    /\ jobsTable' = createBatch(jobsTable, w, Len(finalBatches[w + 1]))
    /\ chain' = [chain EXCEPT ![w] = "invoke"]
    /\ UNCHANGED <<games, cacheTable, analyzePc, response, finalBatches, cachedMistakes,
                   faults, WorkerVars>>

\* Lines 790-799: the Event invocation starts the worker of the batch.
InvokeWorker(w) ==
    /\ chain[w] = "invoke"
    /\ chain' = [chain EXCEPT ![w] = "done"]
    /\ wpc' = [wpc EXCEPT ![w] = "start"]
    /\ UNCHANGED <<games, jobsTable, cacheTable, submitCache, analyzePc, response,
                   finalBatches, cachedMistakes, faults, wLocal, wAgg, engine,
                   legacy, poll, ag, incremented, triggered, stored, stockfish,
                   request, cacheFaults, client>>

\* Lines 804-815: all callbacks resolved, the 202 response.
AnalyzeReturn ==
    /\ analyzePc = "dispatch"
    /\ \A w \in Batches : chain[w] = "done"
    /\ analyzePc' = "returned"
    /\ response' = Response(202, TRUE, "processing", <<>>)
    /\ UNCHANGED <<games, jobsTable, cacheTable, finalBatches, cachedMistakes, chain,
                   faults, WorkerVars>>

\* A store command of handleAnalyze itself fails: the exception reaches
\* exports.handler, lines 1023-1029, which answers 500.
AnalyzeStoreFault ==
    /\ analyzePc \in {"fastCreateJob", "fastSave", "createJob"}
    /\ faults < MaxFaults
    /\ faults' = faults + 1
    /\ analyzePc' = "returned"
    /\ response' = Response(500, FALSE, "", <<>>)
    /\ UNCHANGED <<games, jobsTable, cacheTable, finalBatches, cachedMistakes, chain,
                   WorkerVars>>

\* createBatch or the invocation of one callback fails: that callback rejects.
ChainFault(w) ==
    /\ chain[w] \in {"createBatch", "invoke"}
    /\ faults < MaxFaults
    /\ faults' = faults + 1
    /\ chain' = [chain EXCEPT ![w] = "failed"]
    /\ UNCHANGED <<games, jobsTable, cacheTable, analyzePc, response, finalBatches,
                   cachedMistakes, WorkerVars>>

\* Line 804: Promise.all rejects with the first rejection, and the handler
\* answers 500; the callbacks already started are not stopped.
AnalyzeThrow ==
    /\ analyzePc = "dispatch"
    /\ \E w \in Batches : chain[w] = "failed"
    /\ analyzePc' = "returned"
    /\ response' = Response(500, FALSE, "", <<>>)
    /\ UNCHANGED <<games, jobsTable, cacheTable, finalBatches, cachedMistakes, chain,
                   faults, WorkerVars>>

(* ----------------------- handleBatchProcessing ------------------------- *)

AnalyzeVars == <<legacy, poll, ag, stockfish, request, cacheFaults, client, games, submitCache, analyzePc, response, finalBatches, cachedMistakes, chain>>

AfterCacheCheckReturnsEarly(gamesToAnalyze) ==
    IF Len(gamesToAnalyze) > 0 THEN "init" ELSE "done"

\* Line 628: the engine is started only `if (gamesToAnalyze.length > 0)`;
\* otherwise control passes straight to completeBatch, line 664.
AfterCacheCheck(gamesToAnalyze) ==
    IF Len(gamesToAnalyze) > 0 THEN "init" ELSE "complete"

\* Lines 605-625: body.games is the batch of the invocation payload.
WorkerCheckCache(w) ==
    /\ wpc[w] = "start"
    /\ LET cc == CheckCache(finalBatches[w + 1], cacheTable)
       IN  /\ wLocal' = [wLocal EXCEPT ![w] =
                            [allMistakes |-> cc.allMistakes,
                             gamesToAnalyze |-> cc.gamesToAnalyze, i |-> 0]]
           /\ wpc' = [wpc EXCEPT ![w] = AfterCacheCheck(cc.gamesToAnalyze)]
    /\ UNCHANGED <<AnalyzeVars, jobsTable, cacheTable, wAgg, engine, faults,
                   incremented, triggered, stored>>

AfterCacheReadFaultThrows(gamesToAnalyze) == "catch"

\* Lines 464-467: a failing read is caught inside getCachedAnalysis, so the
\* cache check ends as any other.
AfterCacheReadFault(gamesToAnalyze) == AfterCacheCheck(gamesToAnalyze)

\* Lines 605-625 when the GetCommand of one game's lookup fails.
WorkerCacheReadFault(w) ==
    /\ wpc[w] = "start"
    /\ cacheFaults < MaxCacheFaults
    /\ cacheFaults' = cacheFaults + 1
    /\ \E j \in FailingReads \cap 1..Len(finalBatches[w + 1]) :
          LET batch == finalBatches[w + 1]
              cc == CheckCache(batch, ReadFailing(cacheTable, batch[j]))
          IN  /\ HasUrl(batch[j])
              /\ \A k \in 1..Len(batch) :
                     CacheKey(batch[k]) = CacheKey(batch[j]) => k = j
              /\ wLocal' = [wLocal EXCEPT ![w] =
                               [allMistakes |-> cc.allMistakes,
                                gamesToAnalyze |-> cc.gamesToAnalyze, i |-> 0]]
              /\ wpc' = [wpc EXCEPT ![w] = AfterCacheReadFault(cc.gamesToAnalyze)]
    /\ UNCHANGED <<legacy, poll, ag, stockfish, request, games, submitCache,
                   analyzePc, response, finalBatches, cachedMistakes, chain,
                   jobsTable, cacheTable, wAgg, engine, faults, incremented,
                   triggered, stored, client>>

\* Lines 629-630: the engine process is spawned and answers readyok.
WorkerEngineInit(w) ==
    /\ wpc[w] = "init"
    /\ engine' = [engine EXCEPT ![w] = "running"]
    /\ wpc' = [wpc EXCEPT ![w] = "analyze"]
    /\ UNCHANGED <<AnalyzeVars, jobsTable, cacheTable, wLocal, wAgg, faults,
                   incremented, triggered, stored>>

\* Line 50: the process cannot be spawned, init() rejects; the rejection
\* is outside the inner try and reaches the catch block of line 667.
WorkerEngineFault(w) ==
    /\ wpc[w] = "init"
    /\ faults < MaxFaults
    /\ faults' = faults + 1
    /\ wpc' = [wpc EXCEPT ![w] = "catch"]
    /\ UNCHANGED <<AnalyzeVars, jobsTable, cacheTable, wLocal, wAgg, engine,
                   incremented, triggered, stored>>

\* Lines 637-650: analyzeGame returned; its result is cached and appended.
WorkerAnalyzeGame(w) ==
    /\ wpc[w] = "analyze"
    /\ LET gameData == wLocal[w].gamesToAnalyze[wLocal[w].i + 1]
           gameMistakes == GameMistakes(gameData)
       IN  /\ cacheTable' = cacheAnalysis(cacheTable, gameData, gameMistakes)
           /\ wLocal' = [wLocal EXCEPT ![w].allMistakes = @ \o gameMistakes]
    /\ wpc' = [wpc EXCEPT ![w] = "progress"]
    /\ UNCHANGED <<AnalyzeVars, jobsTable, wAgg, engine, faults, incremented,
                   triggered, stored>>

\* Lines 485-487: the PutCommand of cacheAnalysis fails; the error is
\* logged and the loop goes on as after a write.
WorkerCacheWriteFault(w) ==
    /\ wpc[w] = "analyze"
    /\ cacheFaults < MaxCacheFaults
    /\ HasUrl(wLocal[w].gamesToAnalyze[wLocal[w].i + 1])
    /\ cacheFaults' = cacheFaults + 1
    /\ LET gameData == wLocal[w].gamesToAnalyze[wLocal[w].i + 1]
       IN  wLocal' = [wLocal EXCEPT ![w].allMistakes = @ \o GameMistakes(gameData)]
    /\ wpc' = [wpc EXCEPT ![w] = "progress"]
    /\ UNCHANGED <<legacy, poll, ag, stockfish, request, games, submitCache,
                   analyzePc, response, finalBatches, cachedMistakes, chain,
                   jobsTable, cacheTable, wAgg, engine, faults, incremented,
                   triggered, stored, client>>

WorkerAnalyzeThrowsEndsLoop(w) ==
    /\ wpc[w] = "analyze"
    /\ wpc' = [wpc EXCEPT ![w] = "complete"]
    /\ engine' = [engine EXCEPT ![w] = "quit"]
    /\ UNCHANGED <<AnalyzeVars, jobsTable, cacheTable, wLocal, wAgg, faults,
                   incremented, triggered, stored>>

\* Lines 651-653: analyzeGame threw; the game is skipped.
WorkerAnalyzeThrows(w) ==
    /\ wpc[w] = "analyze"
    /\ wpc' = [wpc EXCEPT ![w] = "progress"]
    /\ UNCHANGED <<AnalyzeVars, jobsTable, cacheTable, wLocal, wAgg, engine, faults,
                   incremented, triggered, stored>>

\* Lines 656-660: updateBatchProgress(jobId, batchIndex, i + 1, ...), i++,
\* and engine.quit() in the finally block when the loop ends.
WorkerUpdateProgress(w) ==
    /\ wpc[w] = "progress"
    /\ jobsTable' = updateBatchProgress(jobsTable, w, wLocal[w].i + 1,
                                        Len(wLocal[w].allMistakes))
    /\ wLocal' = [wLocal EXCEPT ![w].i = @ + 1]
    /\ IF wLocal[w].i + 1 < Len(wLocal[w].gamesToAnalyze)
       THEN /\ wpc' = [wpc EXCEPT ![w] = "analyze"]
            /\ UNCHANGED engine
       ELSE /\ wpc' = [wpc EXCEPT ![w] = "complete"]
            /\ engine' = [engine EXCEPT ![w] = "quit"]
    /\ UNCHANGED <<AnalyzeVars, cacheTable, wAgg, faults, incremented, triggered,
                   stored>>

\* completeBatch, lines 358-370: the batch item becomes completed.
WorkerCompleteBatch(w) ==
    /\ wpc[w] = "complete"
    /\ jobsTable' = MarkBatchCompleted(jobsTable, w, wLocal[w].allMistakes)
    /\ stored' = [stored EXCEPT ![w] = wLocal[w].allMistakes]
    /\ wpc' = [wpc EXCEPT ![w] = "increment"]
    /\ UNCHANGED <<AnalyzeVars, cacheTable, wLocal, wAgg, engine, faults,
                   incremented, triggered>>

\* completeBatch, lines 373-389: the increment and the test of its result.
WorkerIncrement(w) ==
    /\ wpc[w] = "increment"
    /\ jobsTable' = IncrementCompleted(jobsTable)
    /\ incremented' = incremented \cup {w}
    /\ LET job == IncrementResult(jobsTable)
       IN  IF AllBatchesComplete(job)
           THEN /\ triggered' = triggered \cup {w}
                /\ wAgg' = [wAgg EXCEPT ![w] =
                               [allMistakes |-> <<>>, i |-> 0,
                                totalBatches |-> job.totalBatches]]
                /\ wpc' = [wpc EXCEPT ![w] = "aggregate"]
           ELSE /\ wpc' = [wpc EXCEPT ![w] = "done"]
                /\ UNCHANGED <<triggered, wAgg>>
    /\ UNCHANGED <<AnalyzeVars, cacheTable, wLocal, engine, faults, stored>>

BatchMistakesOneBased(table, i) ==
    IF Has(table, BatchKey(i + 1)) /\ "mistakes" \in DOMAIN table[BatchKey(i + 1)]
    THEN table[BatchKey(i + 1)].mistakes
    ELSE <<>>

\* What aggregateJobResults appends for one GetCommand, lines 398-405.
BatchMistakes(table, i) ==
    IF Has(table, BatchKey(i)) /\ "mistakes" \in DOMAIN table[BatchKey(i)]
    THEN table[BatchKey(i)].mistakes
    ELSE <<>>

\* aggregateJobResults, lines 397-406: one batch item is read.
WorkerAggregateGet(w) ==
    /\ wpc[w] = "aggregate"
    /\ wAgg' = [wAgg EXCEPT ![w].allMistakes = @ \o BatchMistakes(jobsTable, wAgg[w].i),
                            ![w].i = @ + 1]
    /\ wpc' = [wpc EXCEPT ![w] =
                   IF wAgg[w].i + 1 < wAgg[w].totalBatches THEN "aggregate"
                   ELSE "aggregateSave"]
    /\ UNCHANGED <<AnalyzeVars, jobsTable, cacheTable, wLocal, engine, faults,
                   incremented, triggered, stored>>

\* aggregateJobResults, lines 409-422: the job item becomes completed.
WorkerAggregateSave(w) ==
    /\ wpc[w] = "aggregateSave"
    /\ jobsTable' = MarkJobCompleted(jobsTable, wAgg[w].allMistakes)
    /\ wpc' = [wpc EXCEPT ![w] = "done"]
    /\ UNCHANGED <<AnalyzeVars, cacheTable, wLocal, wAgg, engine, faults,
                   incremented, triggered, stored>>

WorkerStoreFaultSkipsQuit(w) ==
    /\ wpc[w] \in {"progress", "complete", "increment", "aggregate",
                   "aggregateSave", "catch"}
    /\ faults < MaxFaults
    /\ faults' = faults + 1
    /\ wpc' = [wpc EXCEPT ![w] = IF wpc[w] = "catch" THEN "crashed" ELSE "catch"]
    /\ UNCHANGED <<AnalyzeVars, jobsTable, cacheTable, wLocal, wAgg, engine,
                   incremented, triggered, stored>>

\* A store command of the worker fails.  Inside the try block the exception
\* reaches the catch block of line 667 (through the finally block of line
\* 658 when it comes from updateBatchProgress); thrown by the catch block's
\* own command it ends the invocation.
WorkerStoreFault(w) ==
    /\ wpc[w] \in {"progress", "complete", "increment", "aggregate",
                   "aggregateSave", "catch"}
    /\ faults < MaxFaults
    /\ faults' = faults + 1
    /\ wpc' = [wpc EXCEPT ![w] = IF wpc[w] = "catch" THEN "crashed" ELSE "catch"]
    /\ engine' = [engine EXCEPT ![w] = IF wpc[w] = "progress" THEN "quit" ELSE @]
    /\ UNCHANGED <<AnalyzeVars, jobsTable, cacheTable, wLocal, wAgg, incremented,
                   triggered, stored>>

\* Lines 667-682: the batch item is marked error.
WorkerCatch(w) ==
    /\ wpc[w] = "catch"
    /\ jobsTable' = MarkBatchError(jobsTable, w)
    /\ wpc' = [wpc EXCEPT ![w] = "failed"]
    /\ UNCHANGED <<AnalyzeVars, cacheTable, wLocal, wAgg, engine, faults,
                   incremented, triggered, stored>>

(* ----------------------- handleAsyncProcessing ------------------------- *)
(* exports.handler also accepts an asyncProcessing event, "for backward   *)
(* compatibility" (lines 908-913); handleAnalyze never sends one.  The    *)
(* event is taken to name a job item written by createJob(jobId, n), the  *)
(* call for which createJob keeps the default totalBatches = 1.           *)

ParallelVars ==
    <<games, submitCache, analyzePc, response, finalBatches, cachedMistakes, chain,
      wpc, wLocal, wAgg, engine, incremented, triggered, stored, poll, ag,
      stockfish, request, cacheFaults, client>>

\* Sizes of the game list of an asyncProcessing event.
LegacyGameCounts == {1, 2}

LegacyStart ==
    \E n \in LegacyGameCounts : \E uncached \in SUBSET UncachedCandidates :
        /\ games = GameList(n)
        /\ cacheTable = InitCache(GameList(n), uncached)
        /\ submitCache = cacheTable
        /\ jobsTable = createJob([k \in {} |-> 0], n, 1)
        /\ analyzePc = "none"
        /\ response = NoResponse
        /\ finalBatches = <<>>
        /\ cachedMistakes = <<>>
        /\ chain = [w \in Workers |-> "none"]
        /\ wpc = [w \in Workers |-> "idle"]
        /\ wLocal = [w \in Workers |-> InitLocal]
        /\ wAgg = [w \in Workers |-> InitAgg]
        /\ engine = [w \in Workers |-> "none"]
        /\ legacy = [NoLegacy EXCEPT !.pc = "start"]
        /\ faults = 0
        /\ incremented = {}
        /\ triggered = {}
        /\ stored = [w \in Workers |-> <<>>]
        /\ poll = NoPoll
        /\ ag = NoAnalysis
        /\ stockfish = NoStockfish
        /\ request = ArrayRequest
        /\ cacheFaults = 0

LegacyInit ==
    /\ LegacyStart
    /\ client = NoClient

\* processGames, lines 531-558: the cache check; when every game is a hit
\* the next command is saveJobResults.
LegacyCheckCache ==
    /\ legacy.pc = "start"
    /\ LET cc == CheckCache(games, cacheTable)
       IN  legacy' = [legacy EXCEPT !.allMistakes = cc.allMistakes,
                                   !.gamesToAnalyze = cc.gamesToAnalyze,
                                   !.pc = IF Len(cc.gamesToAnalyze) = 0 THEN "save"
                                          ELSE "init"]
    /\ UNCHANGED <<ParallelVars, jobsTable, cacheTable, faults>>

\* Lines 561-562.
LegacyEngineInit ==
    /\ legacy.pc = "init"
    /\ legacy' = [legacy EXCEPT !.pc = "analyze", !.engine = "running"]
    /\ UNCHANGED <<ParallelVars, jobsTable, cacheTable, faults>>

\* Lines 569-583.
LegacyAnalyzeGame ==
    /\ legacy.pc = "analyze"
    /\ LET gameData == legacy.gamesToAnalyze[legacy.i + 1]
           gameMistakes == GameMistakes(gameData)
       IN  /\ cacheTable' = Put(cacheTable, CacheKey(gameData), [mistakes |-> gameMistakes])
           /\ legacy' = [legacy EXCEPT !.allMistakes = @ \o gameMistakes,
                                       !.pc = "progress"]
    /\ UNCHANGED <<ParallelVars, jobsTable, faults>>

\* Lines 584-586.
LegacyAnalyzeThrows ==
    /\ legacy.pc = "analyze"
    /\ legacy' = [legacy EXCEPT !.pc = "progress"]
    /\ UNCHANGED <<ParallelVars, jobsTable, cacheTable, faults>>

\* Line 588: updateJobProgress(jobId, i + 1, gamesToAnalyze.length, ...).
LegacyUpdateProgress ==
    /\ legacy.pc = "progress"
    /\ jobsTable' = updateJobProgress(jobsTable, legacy.i + 1,
                                      Len(legacy.gamesToAnalyze), Len(legacy.allMistakes))
    /\ legacy' = [legacy EXCEPT !.i = @ + 1,
                                !.pc = IF legacy.i + 1 < Len(legacy.gamesToAnalyze)
                                       THEN "analyze" ELSE "save"]
    /\ UNCHANGED <<ParallelVars, cacheTable, faults>>

\* Lines 556 and 591-595: saveJobResults, then engine.quit() in the finally
\* block when an engine was started.
LegacySave ==
    /\ legacy.pc = "save"
    /\ jobsTable' = saveJobResults(jobsTable, legacy.allMistakes)
    /\ legacy' = [legacy EXCEPT !.pc = "done",
                                !.engine = IF @ = "running" THEN "quit" ELSE @]
    /\ UNCHANGED <<ParallelVars, cacheTable, faults>>

\* engine.init() rejects or a store command of processGames fails: the
\* exception reaches the catch block of line 693 (through the finally block
\* of line 593 when an engine runs); thrown by the catch block's own
\* command it ends the invocation.
LegacyFault ==
    /\ legacy.pc \in {"init", "progress", "save", "catch"}
    /\ faults < MaxFaults
    /\ faults' = faults + 1
    /\ legacy' = [legacy EXCEPT !.pc = IF @ = "catch" THEN "crashed" ELSE "catch",
                                !.engine = IF @ = "running" THEN "quit" ELSE @]
    /\ UNCHANGED <<ParallelVars, jobsTable, cacheTable>>

\* Lines 693-706: the job item is marked error.
LegacyCatch ==
    /\ legacy.pc = "catch"
    /\ jobsTable' = MarkJobError(jobsTable)
    /\ legacy' = [legacy EXCEPT !.pc = "failed"]
    /\ UNCHANGED <<ParallelVars, cacheTable, faults>>

LegacyNext ==
    \/ LegacyCheckCache
    \/ LegacyEngineInit
    \/ LegacyAnalyzeGame
    \/ LegacyAnalyzeThrows
    \/ LegacyUpdateProgress
    \/ LegacySave
    \/ LegacyFault
    \/ LegacyCatch

(* ----------------------------- analyzeGame ----------------------------- *)
(* One call of analyzeGame followed evaluation by evaluation.  The moves  *)
(* of the parsed game are numbered 1, 2, ...; the engine is the           *)
(* environment: for each position it reports a score or none.             *)

MOVES_TO_ANALYZE == 14

MISTAKE_THRESHOLD == 100

\* The longest parsed move list.
MaxHistory == 15

\* The most mistakes of one game.
MaxMistakes == 2

\* What a position can be worth to white, in centipawns.
Scores == {-80, 30, 130}

\* The evaluation of a position from white's side; none when the engine
\* printed no score at the analysis depth.
EngineScores == {Null} \cup {Some(v) : v \in Scores}

\* The first move of the engine's principal variation, in coordinate
\* notation: none, a move that is legal in the position, or one that is not.
BestMoves == {Null, Some("legal"), Some("illegal")}

Backends == {"parallel", "synchronous"}

PlayerColors == {"white", "black"}

HistoryLengths == {0, MOVES_TO_ANALYZE - 1, MOVES_TO_ANALYZE, MaxHistory}

\* fen.split(' ')[1] of the position reached after `position` half-moves.
SideToMove(position) == IF position % 2 = 0 THEN "w" ELSE "b"

\* The score of an engine's info line is relative to the side to move
\* (comment of lines 120-122).
RawScore(white, sideToMove) ==
    IF sideToMove = "b" /\ white # Null THEN Some(-white[1]) ELSE white

\* part_001 lines 120-127: normalizedEval.
NormalizedEval(evalScore, sideToMove) ==
    IF sideToMove = "b" /\ evalScore # Null THEN Some(-evalScore[1]) ELSE evalScore

\* The eval that getEvaluation resolves with: normalizedEval in part_001
\* (line 129), evalScore itself in lambda/index.js (line 114).
ResolvedEval(backend, evalScore, sideToMove) ==
    IF backend = "parallel" THEN NormalizedEval(evalScore, sideToMove) ELSE evalScore

\* The most evaluations without a score in one game.
MaxNulls == 1

\* chess.move(move) and chess.undo() on the replayed game: the moves made
\* since chess.reset().
ChessMove(chess, move) == Append(chess, move)

ChessUndo(chess) == SubSeq(chess, 1, Len(chess) - 1)

uciToSanWithoutUndo(uciMove, chess) ==
    IF uciMove = "legal"
    THEN [san |-> "san", chess |-> ChessMove(chess, "best")]
    ELSE [san |-> uciMove, chess |-> chess]

\* uciToSan, lines 171-182: what it returns and the replay it leaves.
uciToSan(uciMove, chess) ==
    IF uciMove = "legal"
    THEN [san |-> "san", chess |-> ChessUndo(ChessMove(chess, "best"))]
    ELSE [san |-> uciMove, chess |-> chess]

prevEvalKeepsNull(prevEval, currentEval) ==
    IF prevEval = Null THEN Null ELSE currentEval

\* Line 261: prevEval = currentEval.
prevEvalAfter(prevEval, currentEval) == currentEval

Unshift(mistakes, record) == <<record>> \o mistakes

\* Line 238: mistakes.push.
Push(mistakes, record) == Append(mistakes, record)

\* Lines 203-205.
playerMoveIndices(isWhite) ==
    {IF isWhite THEN 2 * k ELSE 2 * k + 1 : k \in 0..((MOVES_TO_ANALYZE \div 2) - 1)}

TooShortOrEqual(history) == Len(history) <= MOVES_TO_ANALYZE

\* Line 199.
TooShort(history) == Len(history) < MOVES_TO_ANALYZE

\* Lines 230-232.
EvalChange(isWhite, prevEval, currentEval) ==
    IF isWhite THEN currentEval - prevEval ELSE prevEval - currentEval

IsMistakeStrict(evalChange) == evalChange < -MISTAKE_THRESHOLD

\* Line 234.
IsMistake(evalChange) == evalChange <= -MISTAKE_THRESHOLD

\* Lines 238-257, the attributes that depend on the analysis.
MistakeRecord(i, move, bestMoveBefore, moveSequence, prevEval, currentEval, evalChange, playerColor) ==
    [move_number |-> (i \div 2) + 1, move |-> move, best_move |-> bestMoveBefore,
     move_sequence |-> moveSequence, eval_before |-> prevEval,
     eval_after |-> currentEval, eval_drop |-> evalChange,
     player_color |-> playerColor]

(* ---------------------------- handleStatus ------------------------------ *)

\* Everything but the status request and the analyzeGame call.
SystemVars ==
    <<games, jobsTable, cacheTable, submitCache, analyzePc, response, finalBatches,
      cachedMistakes, chain, wpc, wLocal, wAgg, engine, legacy, incremented,
      triggered, stored, stockfish, request, cacheFaults, client>>

\* BatchGetItem accepts at most this many keys (lines 856-858).
BatchGetMaxKeys == 100

\* item.attr || 0
OrZero(item, attr) == IF attr \in DOMAIN item THEN item[attr] ELSE 0

\* The orders in which BatchGetItem may return the items of a set of keys.
Orderings(keys) ==
    {order \in [1..Cardinality(keys) -> keys] :
        \A a, b \in 1..Cardinality(keys) : a # b => order[a] # order[b]}

IsCompletedAnyStatus(item) == TRUE

\* item.status === 'completed', line 872.
IsCompleted(item) == "status" \in DOMAIN item /\ item.status = "completed"

\* Lines 869-879: the loop over the items of one BatchGet response.
RECURSIVE AddItems(_, _, _)
AddItems(table, acc, items) ==
    IF items = <<>> THEN acc
    ELSE LET item == table[Head(items)]
             completed == IsCompleted(item)
         IN  AddItems(table,
                 [acc EXCEPT
                    !.totalProcessed = @ + OrZero(item, "gamesProcessed"),
                    !.totalMistakes = @ + OrZero(item, "mistakesFound"),
                    !.completedBatches = IF completed THEN @ + 1 ELSE @,
                    !.partialMistakes =
                        IF completed /\ "mistakes" \in DOMAIN item
                        THEN @ \o item.mistakes ELSE @],
                 Tail(items))

\* Lines 857-858: the chunks batchKeys.slice(i, i + 100), i = 0, 100, ...
RECURSIVE StatusChunksFrom(_, _)
StatusChunksFrom(batchKeys, i) ==
    IF i >= Len(batchKeys) THEN <<>>
    ELSE <<Slice(batchKeys, i, i + BatchGetMaxKeys)>>
             \o StatusChunksFrom(batchKeys, i + BatchGetMaxKeys)

\* Lines 857-883: one BatchGetCommand per chunk.  The result is the set of
\* accumulators the loop can end with: a response lists the items found in
\* any order, and a command that throws is logged and its chunk skipped
\* (failedChunks counts them).
RECURSIVE BatchGetEach(_, _, _)
BatchGetEach(table, chunks, acc) ==
    IF chunks = <<>> THEN {acc}
    ELSE LET chunk == Head(chunks)
             found == {chunk[k] : k \in {j \in 1..Len(chunk) : Has(table, chunk[j])}}
             answered == {AddItems(table, acc, items) : items \in Orderings(found)}
             thrown == {[acc EXCEPT !.failedChunks = @ + 1]}
         IN  UNION {BatchGetEach(table, Tail(chunks), a) : a \in answered \cup thrown}

\* Lines 851-854.
StatusBatchKeys(job) == [k \in 1..job.totalBatches |-> BatchKey(k - 1)]

InitTotals ==
    [totalProcessed |-> 0, totalMistakes |-> 0, completedBatches |-> 0,
     partialMistakes |-> <<>>, failedChunks |-> 0]

\* Lines 818-843: getJob; 404 without a job, the job's own fields when it is
\* completed.
StatusGetJob ==
    /\ poll.pc = "idle"
    /\ poll' =
         IF ~Has(jobsTable, JobKey)
         THEN [pc |-> "done", job |-> <<>>,
               response |-> StatusResponse(404, "", 0, 0, 0, 0, 0, <<>>)]
         ELSE LET job == jobsTable[JobKey]
              IN  IF job.status = "completed"
                  THEN [pc |-> "done", job |-> job,
                        response |-> StatusResponse(200, job.status, job.totalGames,
                                        job.totalGames, job.totalBatches,
                                        job.totalBatches, job.mistakesFound,
                                        job.mistakes)]
                  ELSE [pc |-> "batches", job |-> job, response |-> NoStatusResponse]
    /\ UNCHANGED <<SystemVars, ag, faults>>

\* Lines 845-897: the progress of a job that is not completed.
StatusBatchGet ==
    /\ poll.pc = "batches"
    /\ LET job == poll.job
           chunks == StatusChunksFrom(StatusBatchKeys(job), 0)
       IN  \E acc \in BatchGetEach(jobsTable, chunks, InitTotals) :
              /\ faults + acc.failedChunks <= MaxFaults
              /\ faults' = faults + acc.failedChunks
              /\ poll' = [poll EXCEPT
                            !.pc = "done",
                            !.response =
                                StatusResponse(200, job.status, acc.totalProcessed,
                                    job.totalGames, acc.completedBatches,
                                    job.totalBatches, acc.totalMistakes,
                                    acc.partialMistakes)]
    /\ UNCHANGED <<SystemVars, ag>>

StatusNext ==
    \/ StatusGetJob
    \/ StatusBatchGet

\* Lines 186-187 (the request carries a player_color).
IsWhite == ag.player_color = "white"

\* Line 212: Math.min(MOVES_TO_ANALYZE, history.length).
Window == Min(MOVES_TO_ANALYZE, Len(ag.history))

\* Lines 184-201: the move list is parsed; null without a parsed list of at
\* least MOVES_TO_ANALYZE half-moves.
AnalyzeGameBegin ==
    /\ ag.pc = "start"
    /\ ag' = IF ~ag.loaded \/ TooShort(ag.history)
             THEN [ag EXCEPT !.pc = "done", !.returned = Null]
             ELSE [ag EXCEPT !.pc = "first"]
    /\ UNCHANGED <<SystemVars, poll, faults>>

\* Line 210: the evaluation of the starting position.
AnalyzeGameFirstEval ==
    /\ ag.pc = "first"
    /\ \E white \in EngineScores :
          LET sideToMove == SideToMove(Len(ag.chess))
              nulls == IF white = Null THEN 1 ELSE 0
          IN  /\ ag.nulls + nulls <= MaxNulls
              /\ ag' = [ag EXCEPT
                          !.pc = "loop",
                          !.prevEval = ResolvedEval(ag.backend,
                                           RawScore(white, sideToMove), sideToMove),
                          !.prevWhite = white,
                          !.nulls = @ + nulls,
                          !.calls = @ + 1]
    /\ UNCHANGED <<SystemVars, poll, faults>>

\* Lines 213-222 for a half-move of the player: the position before the
\* move is evaluated for its best move.
AnalyzeGameBestMove ==
    /\ ag.pc = "loop"
    /\ ag.i < Window
    /\ ag.i \in playerMoveIndices(IsWhite)
    /\ \E bestMove \in BestMoves :
          LET translated == uciToSan(bestMove[1], ag.chess)
          IN  ag' = [ag EXCEPT
                       !.pc = "move",
                       !.moveSequence = Append(@, ag.history[ag.i + 1]),
                       !.bestMoveBefore =
                           IF bestMove = Null THEN Null ELSE Some(translated.san),
                       !.chess = IF bestMove = Null THEN @ ELSE translated.chess,
                       !.calls = @ + 1]
    /\ UNCHANGED <<SystemVars, poll, faults>>

\* Lines 224-261 (after lines 213-216 for a half-move of the opponent): the
\* move is played, the position reached is evaluated and compared.
AnalyzeGameMove ==
    /\ \/ ag.pc = "move"
       \/ ag.pc = "loop" /\ ag.i < Window /\ ag.i \notin playerMoveIndices(IsWhite)
    /\ \E white \in EngineScores :
          LET move == ag.history[ag.i + 1]
              moveSequence == IF ag.pc = "move" THEN ag.moveSequence
                              ELSE Append(ag.moveSequence, move)
              chess == ChessMove(ag.chess, move)
              sideToMove == SideToMove(Len(chess))
              currentEval == ResolvedEval(ag.backend, RawScore(white, sideToMove),
                                          sideToMove)
              compared == /\ ag.i \in playerMoveIndices(IsWhite)
                          /\ ag.prevEval # Null
                          /\ currentEval # Null
              evalChange == EvalChange(IsWhite, ag.prevEval[1], currentEval[1])
              mistakes == IF compared /\ IsMistake(evalChange)
                          THEN Push(ag.mistakes,
                                   MistakeRecord(ag.i, move, ag.bestMoveBefore,
                                       moveSequence, ag.prevEval[1], currentEval[1],
                                       evalChange, ag.player_color))
                          ELSE ag.mistakes
              nulls == IF white = Null THEN 1 ELSE 0
              suppressed == IF /\ ag.i \in playerMoveIndices(IsWhite)
                               /\ (ag.prevEval = Null \/ currentEval = Null)
                            THEN 1 ELSE 0
          IN  /\ Len(mistakes) <= MaxMistakes
              /\ ag.nulls + nulls <= MaxNulls
              /\ ag' = [ag EXCEPT
                          !.pc = "loop",
                          !.chess = chess,
                          !.nulls = @ + nulls,
                          !.suppressed = @ + suppressed,
                          !.moveSequence = moveSequence,
                          !.bestMoveBefore = Null,
                          !.mistakes = mistakes,
                          !.prevEval = prevEvalAfter(ag.prevEval, currentEval),
                          !.prevWhite = white,
                          !.i = @ + 1,
                          !.calls = @ + 1]
    /\ UNCHANGED <<SystemVars, poll, faults>>

\* Line 264.
AnalyzeGameReturn ==
    /\ ag.pc = "loop"
    /\ ag.i >= Window
    /\ ag' = [ag EXCEPT !.pc = "done", !.returned = Some(ag.mistakes)]
    /\ UNCHANGED <<SystemVars, poll, faults>>

AnalyzeGameNext ==
    \/ AnalyzeGameBegin
    \/ AnalyzeGameFirstEval
    \/ AnalyzeGameBestMove
    \/ AnalyzeGameMove
    \/ AnalyzeGameReturn

(* ------------------- handleAnalyze of lambda/index.js -------------------- *)

SyncVars ==
    <<games, cacheTable, submitCache, finalBatches, cachedMistakes, chain, wpc,
      wLocal, wAgg, engine, incremented, triggered, stored, stockfish, request,
      cacheFaults, client, poll, ag, faults>>

\* lambda/index.js lines 322-330.
SyncAnalyzeReject ==
    /\ analyzePc = "start"
    /\ request.backend = "synchronous"
    /\ NoGamesProvided(request, games)
    /\ analyzePc' = "returned"
    /\ response' = Response(400, FALSE, "", <<>>)
    /\ UNCHANGED <<SyncVars, jobsTable, legacy>>

\* lambda/index.js lines 332-370, in one step: the job is created, an engine
\* started, every game analyzed and the progress written, the result saved
\* and returned, the engine stopped.
SyncAnalyze ==
    /\ analyzePc = "start"
    /\ request.backend = "synchronous"
    /\ ~NoGamesProvided(request, games)
    /\ LET allMistakes == Flatten([i \in 1..Len(games) |-> GameMistakes(games[i])])
       IN  /\ jobsTable' = Put(jobsTable, JobKey,
                               [status |-> "completed", currentGame |-> Len(games),
                                totalGames |-> Len(games),
                                mistakesFound |-> Len(allMistakes),
                                mistakes |-> allMistakes])
           /\ legacy' = [legacy EXCEPT !.allMistakes = allMistakes, !.engine = "quit"]
           /\ response' = Response(200, TRUE, "completed", allMistakes)
    /\ analyzePc' = "returned"
    /\ UNCHANGED SyncVars

SyncNext == SyncAnalyzeReject \/ SyncAnalyze

(* --------------------------- StockfishEngine ----------------------------- *)

ANALYSIS_DEPTH == 18

\* The most info lines of one search.
MaxLines == 3

\* The most getEvaluation calls on one engine.
MaxEvaluations == 2

\* The longest mate the engine announces.
MaxMate == 101

\* What an info line of the engine reports: `depth D seldepth S`, then
\* possibly `score cp V` or `score mate N`, then possibly ` pv MOVE ...`.
Depths == {ANALYSIS_DEPTH - 1, ANALYSIS_DEPTH}

MateDistances == {-1, 0, MaxMate - 1, MaxMate}

ScoreTokens == {Null, <<"cp", 30>>} \cup {<<"mate", n>> : n \in MateDistances}

InfoLines ==
    [depth : Depths, seldepth : {ANALYSIS_DEPTH + 7}, score : ScoreTokens,
     pv : {Null, Some("e2e4")}]

\* Line 96: line.match(/depth (\d+)/) is the first `depth N` of the line,
\* which the engine prints ahead of `seldepth N`.
DepthOf(line) == line.depth

QualifiesAbove(depth) == depth > ANALYSIS_DEPTH

\* Line 99.
Qualifies(depth) == depth >= ANALYSIS_DEPTH

\* Line 105.
MateScore(mateIn) ==
    IF mateIn > 0 THEN 10000 - mateIn * 100 ELSE -10000 - mateIn * 100

\* Lines 102-111: the score of a line that has one.
ScoreOf(score) == IF score[1] = "mate" THEN MateScore(score[2]) ELSE score[2]

\* stdin.write of line 84, for a process whose stdin is writable.
Send(self, commands) ==
    IF self.process = "running"
    THEN [self EXCEPT !.stdin = @ \o commands]
    ELSE self

\* resolve() or reject() of init's promise: a settled promise stays as it
\* is.
Settle(self, outcome) ==
    IF self.init = "pending" THEN [self EXCEPT !.init = outcome] ELSE self

\* checkReady, lines 57-66.
checkReady(self, line) ==
    IF line = "uciok"
    THEN Send(self, <<"setoption", "setoption", "isready">>)
    ELSE IF line = "readyok"
         THEN Settle([self EXCEPT !.ready = TRUE], "resolved")
         ELSE self

\* The handler of getEvaluation on an info line, lines 94-117.
OnInfoLine(self, line) ==
    IF line.score # Null /\ Qualifies(DepthOf(line))
    THEN [self EXCEPT
            !.currentDepth = DepthOf(line),
            !.evalScore = Some(ScoreOf(line.score)),
            !.bestMove = IF line.pv # Null THEN line.pv ELSE @]
    ELSE self

\* What no method of StockfishEngine writes.
EngineFrame ==
    <<games, jobsTable, cacheTable, submitCache, analyzePc, response, finalBatches,
      cachedMistakes, chain, wpc, wLocal, wAgg, engine, legacy, incremented,
      triggered, stored, request, cacheFaults, client, poll,
      ag, faults>>

\* init(), lines 32-55 and 71: the process is spawned, or will report that
\* it could not be; `uci` is sent and checkReady installed.
StockfishInit ==
    /\ stockfish.init = "none"
    /\ \E spawned \in BOOLEAN :
          stockfish' = Send([stockfish EXCEPT
                               !.process = IF spawned THEN "running" ELSE "failing",
                               !.onMessage = "checkReady",
                               !.init = "pending"],
                           <<"uci">>)
    /\ UNCHANGED EngineFrame

\* Lines 49-51: the `error` event of a process that could not be spawned.
StockfishSpawnError ==
    /\ stockfish.process = "failing"
    /\ stockfish' = Settle([stockfish EXCEPT !.process = "failed"], "rejected")
    /\ UNCHANGED EngineFrame

\* The engine reads a command other than `go` and prints its answer, if
\* the command has one; lines 36-43 and 76-80 hand it to onMessage.
EngineReply ==
    /\ stockfish.process = "running"
    /\ stockfish.stdin # <<>>
    /\ Head(stockfish.stdin) # "go"
    /\ LET command == Head(stockfish.stdin)
           read == [stockfish EXCEPT !.stdin = Tail(@)]
           line == IF command = "uci" THEN "uciok"
                   ELSE IF command = "isready" THEN "readyok" ELSE ""
       IN  stockfish' = IF stockfish.onMessage = "checkReady"
                        THEN checkReady(read, line)
                        ELSE read
    /\ UNCHANGED EngineFrame

NotAwaited(self) == TRUE

\* The `await` in front of every engine.getEvaluation(...) of analyzeGame
\* (lines 210, 218, 226) and in front of analyzeGame in the loop over the
\* games of a batch (line 637): the caller makes its next call once the
\* promise of the previous one has resolved.
Awaited(self) == self.calls = 0 \/ self.resolved # Null

\* getEvaluation(fen), lines 88-93 and 133-134, called by analyzeGame once
\* init and the previous evaluation have resolved.
GetEvaluation ==
    /\ stockfish.init = "resolved"
    /\ Awaited(stockfish)
    /\ stockfish.calls < MaxEvaluations
    /\ \E sideToMove \in {"w", "b"} :
          stockfish' = Send([stockfish EXCEPT
                               !.onMessage = "getEvaluation",
                               !.sideToMove = sideToMove,
                               !.evalScore = Null,
                               !.bestMove = Null,
                               !.currentDepth = 0,
                               !.stdout = <<>>,
                               !.resolved = Null,
                               !.calls = @ + 1],
                           <<"position", "go">>)
    /\ UNCHANGED EngineFrame

\* The searching engine prints an info line.
EngineInfo ==
    /\ stockfish.process = "running"
    /\ stockfish.stdin # <<>>
    /\ Head(stockfish.stdin) = "go"
    /\ Len(stockfish.stdout) < MaxLines
    /\ \E line \in InfoLines :
          stockfish' = [OnInfoLine(stockfish, line) EXCEPT !.stdout = Append(@, line)]
    /\ UNCHANGED EngineFrame

\* The engine ends its search with `bestmove`: lines 119-130.
EngineBestmove ==
    /\ stockfish.process = "running"
    /\ stockfish.stdin # <<>>
    /\ Head(stockfish.stdin) = "go"
    /\ stockfish' =
          [stockfish EXCEPT
             !.stdin = Tail(@),
             !.resolved =
                 Some([eval |-> NormalizedEval(stockfish.evalScore,
                                               stockfish.sideToMove),
                       bestMove |-> stockfish.bestMove,
                       depth |-> stockfish.currentDepth])]
    /\ UNCHANGED EngineFrame

\* The steps of the program, and those of the engine process.
StockfishNext ==
    \/ StockfishInit
    \/ StockfishSpawnError
    \/ GetEvaluation

EngineNext ==
    \/ EngineReply
    \/ EngineInfo
    \/ EngineBestmove

(* ------------------- the client: gameAnalyzer.js ----------------------- *)
(* analyzeAllGames, pollForResults, fetchPartialResults and cancelAnalysis *)
(* of the Lambda-backed client (lines 338-612), one step per await.  The   *)
(* client's POST /analyze is the request of handleAnalyze and its status   *)
(* requests are those of handleStatus.                                     *)

\* The most status requests of pollForResults.
MaxPolls == 2

\* The most calls of analyzeAllGames.
MaxRuns == 2

\* What no step of the client writes.
ClientFrame ==
    <<games, jobsTable, cacheTable, submitCache, analyzePc, response, finalBatches,
      cachedMistakes, chain, wpc, wLocal, wAgg, engine, legacy, incremented,
      triggered, stored, stockfish, request, cacheFaults, ag, faults>>

\* response.ok.
Ok(statusCode) == statusCode >= 200 /\ statusCode <= 299

\* Line 362: games.filter(g => !processedUrls.has(g.url)).
GamesToProcess(gs, processedUrls) ==
    SelectSeq(gs, LAMBDA g : g.url \notin processedUrls)

\* Lines 401-403 and 515-517: addToAnalysisProgress for every submitted game.
MarkProcessed(progress, gs) == progress \cup {gs[k].url : k \in 1..Len(gs)}

\* The finally block of analyzeAllGames, lines 457-460, after a return.
Return(self, value) ==
    [self EXCEPT !.pc = "returned", !.isAnalyzing = FALSE, !.returned = Some(value)]

\* fetch(`/status/${jobId}`): a status request leaves the browser.
SendStatus(self, pc, after) ==
    [self EXCEPT !.pc = pc, !.after = after, !.polls = @ + 1]

\* Line 472, the test of the while loop: the next status request, or
\* fetchPartialResults at line 568 once isAnalyzing is false.
LoopTest(self) ==
    IF self.isAnalyzing THEN SendStatus(self, "status", "none")
    ELSE SendStatus(self, "partial", "exit")

\* Lines 511-545, what follows the partial save of a status answer: the
\* completed branch up to its await, the throw of the error branch, which
\* the catch block of line 547 receives, or the wait of line 545.
AfterStatus(self, status, gs) ==
    IF status.status = "completed"
    THEN [self EXCEPT !.pc = "finalSave",
                      !.progress = MarkProcessed(@, gs),
                      !.mistakes = self.existingMistakes \o status.mistakes]
    ELSE IF status.status = "error"
         THEN [self EXCEPT !.pc = "wait"]
         ELSE [self EXCEPT !.pc = "wait"]

\* analyzeAllGames, lines 393-438: the answer to POST /analyze.  A
\* response that is not ok is thrown and reported (lines 453-456); a
\* completed one is stored and returned; otherwise pollForResults sends
\* its first status request.
ClientPostResponse ==
    /\ client.pc = "post"
    /\ ~client.aborted
    /\ analyzePc = "returned"
    /\ client' =
         IF ~Ok(response.statusCode)
         THEN Return([client EXCEPT !.stage = "error"], client.mistakes)
         ELSE IF response.status = "completed"
              THEN LET allMistakes == client.existingMistakes \o response.mistakes
                   IN  Return([client EXCEPT !.stage = "complete",
                                             !.progress = MarkProcessed(@, games),
                                             !.mistakes = allMistakes],
                              allMistakes)
              ELSE SendStatus([client EXCEPT !.stage = "analyzing",
                                             !.lastSavedMistakeCount = 0],
                              "status", "none")
    /\ poll' = NoPoll
    /\ UNCHANGED ClientFrame

\* Lines 441-452: the POST was aborted.
ClientPostAborted ==
    /\ client.pc = "post"
    /\ client.aborted
    /\ client' = Return([client EXCEPT !.stage = "cancelled"], client.mistakes)
    /\ UNCHANGED <<ClientFrame, poll>>

\* Lines 474-509: a status answer.  One that is not ok is thrown and
\* caught at line 547; new partial mistakes are stored and sent to the
\* cloud.
ClientStatusResponse ==
    /\ client.pc = "status"
    /\ ~client.aborted
    /\ poll.pc = "done"
    /\ LET status == poll.response
       IN  client' =
             IF ~Ok(status.statusCode)
             THEN [client EXCEPT !.pc = "wait"]
             ELSE IF Len(status.mistakes) > client.lastSavedMistakeCount
                  THEN [client EXCEPT
                          !.pc = "save",
                          !.mistakes = client.existingMistakes \o status.mistakes,
                          !.lastSavedMistakeCount = Len(status.mistakes)]
                  ELSE AfterStatus(client, status, games)
    /\ UNCHANGED <<ClientFrame, poll>>

\* Line 507: saveUserDataToCloud has returned.
ClientSaved ==
    /\ client.pc = "save"
    /\ client' = AfterStatus(client, poll.response, games)
    /\ UNCHANGED <<ClientFrame, poll>>

\* Lines 524-536: the final save has returned; the results are returned.
ClientFinalSaved ==
    /\ client.pc = "finalSave"
    /\ client' = Return([client EXCEPT !.stage = "complete"], client.mistakes)
    /\ UNCHANGED <<ClientFrame, poll>>

\* Lines 545 and 564: the timer of POLL_INTERVAL fires and the loop test
\* is made.
ClientTimer ==
    /\ client.pc = "wait"
    /\ ~client.isAnalyzing \/ client.polls < MaxPolls
    /\ client' = LoopTest(client)
    /\ poll' = NoPoll
    /\ UNCHANGED ClientFrame

\* Lines 547-550: the status request was aborted, fetchPartialResults is
\* called.
ClientStatusAborted ==
    /\ client.pc = "status"
    /\ client.aborted
    /\ client' = SendStatus(client, "partial", "abort")
    /\ poll' = NoPoll
    /\ UNCHANGED ClientFrame

PartialResultsWithoutExisting(self, status) ==
    IF Ok(status.statusCode) /\ Len(status.mistakes) > 0
    THEN [allMistakes |-> status.mistakes, newMistakes |-> Len(status.mistakes)]
    ELSE [allMistakes |-> self.existingMistakes, newMistakes |-> 0]

\* What fetchPartialResults returns (lines 582-600) and its caller does
\* with it (lines 551-552, 569-570).
PartialResults(self, status) ==
    IF Ok(status.statusCode) /\ Len(status.mistakes) > 0
    THEN [allMistakes |-> self.existingMistakes \o status.mistakes,
          newMistakes |-> Len(status.mistakes)]
    ELSE [allMistakes |-> self.existingMistakes, newMistakes |-> 0]

WithPartialResults(self, partialResults) ==
    [self EXCEPT
       !.pc = "partialSave",
       !.returned = Some(partialResults.allMistakes),
       !.mistakes = IF partialResults.newMistakes > 0
                    THEN partialResults.allMistakes ELSE @]

\* fetchPartialResults got its answer.
ClientPartialResponse ==
    /\ client.pc = "partial"
    /\ poll.pc = "done"
    /\ client' = WithPartialResults(client, PartialResults(client, poll.response))
    /\ UNCHANGED <<ClientFrame, poll>>

\* Lines 558-559 and 441-452, or line 578: the partial results are returned.
ClientPartialSaved ==
    /\ client.pc = "partialSave"
    /\ client' = Return([client EXCEPT
                           !.stage = IF client.after = "abort" THEN "cancelled" ELSE @],
                        client.returned[1])
    /\ UNCHANGED <<ClientFrame, poll>>

\* A status request of the poll loop fails in the network: the exception
\* is caught at line 547 and the loop goes on after the wait of line 564.
ClientPollFails ==
    /\ client.pc = "status"
    /\ ~client.aborted
    /\ poll.pc # "done"
    /\ faults < MaxFaults
    /\ faults' = faults + 1
    /\ client' = [client EXCEPT !.pc = "wait"]
    /\ UNCHANGED <<games, jobsTable, cacheTable, submitCache, analyzePc, response,
                   finalBatches, cachedMistakes, chain, wpc, wLocal, wAgg, engine,
                   legacy, incremented, triggered, stored, stockfish, request,
                   cacheFaults, ag, poll>>

\* The request of fetchPartialResults fails: lines 596-599.
ClientPartialFails ==
    /\ client.pc = "partial"
    /\ poll.pc # "done"
    /\ faults < MaxFaults
    /\ faults' = faults + 1
    /\ client' = WithPartialResults(client, PartialResults(client, NoStatusResponse))
    /\ UNCHANGED <<games, jobsTable, cacheTable, submitCache, analyzePc, response,
                   finalBatches, cachedMistakes, chain, wpc, wLocal, wAgg, engine,
                   legacy, incremented, triggered, stored, stockfish, request,
                   cacheFaults, ag, poll>>

\* cancelAnalysis, lines 602-608, called while analyzeAllGames runs.
ClientCancel ==
    /\ client.isAnalyzing
    /\ client' = [client EXCEPT
                    !.isAnalyzing = FALSE,
                    !.aborted = (client.analysisAbortController # "null") \/ @,
                    !.analysisAbortController = "null"]
    /\ UNCHANGED <<ClientFrame, poll>>

\* handleStatus serves the status request that is in flight.
ClientStatusServed ==
    /\ client.pc \in {"status", "partial"}
    /\ StatusNext

\* analyzeAllGames is called again, lines 352-391.  With nothing left to
\* process it returns the stored mistakes; otherwise the games not marked
\* as processed are posted, which makes a new job: the backend is as a
\* request finds it, with the cache as the earlier jobs left it.  (The
\* workers of the earlier job write only that job's items.)
ClientReanalyze ==
    /\ client.pc = "returned"
    /\ client.runs < MaxRuns
    /\ LET gamesToProcess == GamesToProcess(client.games, client.progress)
           called == [client EXCEPT !.isAnalyzing = TRUE,
                                    !.analysisAbortController = "controller",
                                    !.aborted = FALSE,
                                    !.returned = Null,
                                    !.lastSavedMistakeCount = 0,
                                    !.polls = 0,
                                    !.runs = @ + 1]
       IN  IF Len(gamesToProcess) = 0
           THEN /\ client' = Return([called EXCEPT !.stage = "complete"], client.mistakes)
                /\ UNCHANGED <<ClientFrame, poll>>
           ELSE /\ client' = [called EXCEPT !.pc = "post", !.stage = "init",
                                            !.existingMistakes = client.mistakes]
                /\ games' = gamesToProcess
                /\ request' = ArrayRequest
                /\ submitCache' = cacheTable
                /\ jobsTable' = [k \in {} |-> 0]
                /\ analyzePc' = "start"
                /\ response' = NoResponse
                /\ finalBatches' = <<>>
                /\ cachedMistakes' = <<>>
                /\ chain' = [w \in Workers |-> "none"]
                /\ wpc' = [w \in Workers |-> "idle"]
                /\ wLocal' = [w \in Workers |-> InitLocal]
                /\ wAgg' = [w \in Workers |-> InitAgg]
                /\ engine' = [w \in Workers |-> "none"]
                /\ legacy' = NoLegacy
                /\ poll' = NoPoll
                /\ incremented' = {}
                /\ triggered' = {}
                /\ stored' = [w \in Workers |-> <<>>]
                /\ UNCHANGED <<cacheTable, stockfish, cacheFaults, ag, faults>>

\* The continuations of one call of analyzeAllGames.
ClientProgress ==
    \/ ClientPostResponse
    \/ ClientPostAborted
    \/ ClientStatusResponse
    \/ ClientSaved
    \/ ClientFinalSaved
    \/ ClientTimer
    \/ ClientStatusAborted
    \/ ClientPartialResponse
    \/ ClientPartialSaved

\* One call of analyzeAllGames, with what the network and the user do.
ClientRun ==
    \/ ClientProgress
    \/ ClientPollFails
    \/ ClientPartialFails
    \/ ClientCancel

ClientNext ==
    \/ ClientRun
    \/ ClientReanalyze

(* -------------------------- specifications ----------------------------- *)

AnalyzeStep ==
    \/ AnalyzeReject
    \/ AnalyzeQuickCheck
    \/ FastCreateJob
    \/ FastSave
    \/ CreateJob
    \/ \E w \in Workers : CreateBatch(w)
    \/ \E w \in Workers : InvokeWorker(w)
    \/ AnalyzeReturn

WorkerStep(w) ==
    \/ WorkerCheckCache(w)
    \/ WorkerEngineInit(w)
    \/ WorkerAnalyzeGame(w)
    \/ WorkerUpdateProgress(w)
    \/ WorkerCompleteBatch(w)
    \/ WorkerIncrement(w)
    \/ WorkerAggregateGet(w)
    \/ WorkerAggregateSave(w)

\* A fault, or the handling of one.
Fault ==
    \/ AnalyzeStoreFault
    \/ AnalyzeThrow
    \/ \E w \in Workers : WorkerCatch(w)
    \/ \E w \in Workers : ChainFault(w)
    \/ \E w \in Workers : WorkerEngineFault(w)
    \/ \E w \in Workers : WorkerAnalyzeThrows(w)
    \/ \E w \in Workers : WorkerStoreFault(w)

Next ==
    \/ AnalyzeStep
    \/ \E w \in Workers : WorkerStep(w)
    \/ Fault

Spec == Init /\ [][Next]_vars

\* The runs in which no store command fails and every engine starts (a
\* game whose analysis throws is skipped, which is no fault).  handleAnalyze
\* and every invoked worker are separate Lambda invocations, each of which
\* keeps running while it has a step to take.
NoFaultNext ==
    \/ AnalyzeStep
    \/ \E w \in Workers : WorkerStep(w)
    \/ \E w \in Workers : WorkerAnalyzeThrows(w)

NoFaultFairSpec ==
    /\ Init
    /\ [][NoFaultNext]_vars
    /\ WF_vars(AnalyzeStep)
    /\ \A w \in Workers : WF_vars(WorkerStep(w))

\* Every writer of a job item: the parallel path and the asyncProcessing
\* path.
JobSpec == (Init \/ LegacyInit) /\ [][Next \/ LegacyNext]_vars

\* One status request arriving at any moment of a submission of no game, of
\* one game or of two batches.
StatusGameCounts == {0, 1, BATCH_SIZE + 1}

StatusInit ==
    \E n \in StatusGameCounts : \E uncached \in SUBSET UncachedCandidates :
        InitState(GameList(n), InitCache(GameList(n), uncached))

StatusSpec == StatusInit /\ [][Next \/ StatusNext]_vars

\* analyzeGame alone, in either backend, on a game of either color whose
\* move list does or does not parse.
AnalyzeGameInit ==
    /\ SystemInit(<<>>, [k \in {} |-> 0])
    /\ \E backend \in Backends, color \in PlayerColors, loaded \in BOOLEAN,
          n \in HistoryLengths :
          /\ backend = "synchronous" => n \in {MOVES_TO_ANALYZE - 1, MOVES_TO_ANALYZE}
          /\ ag = [NoAnalysis EXCEPT
                  !.pc = "start", !.backend = backend, !.player_color = color,
                  !.loaded = loaded,
                  !.history = IF loaded THEN [k \in 1..n |-> k] ELSE <<>>]

AnalyzeGameSpec == AnalyzeGameInit /\ [][AnalyzeGameNext]_vars

\* Requests whose body.games is not an array, and the game lists that the
\* synchronous backend is sent.
MalformedGames == GamesValues \ {"array"}

SyncGameCounts == {0, 1, 2}

\* POST /analyze at either backend, with or without a list of games.
SubmitInit ==
    \/ Init
    \/ \E backend \in Backends, value \in MalformedGames :
          /\ StartState(<<>>, [k \in {} |-> 0], [backend |-> backend, games |-> value])
          /\ ag = NoAnalysis
    \/ \E n \in SyncGameCounts :
          /\ StartState(GameList(n), [k \in {} |-> 0],
                        [backend |-> "synchronous", games |-> "array"])
          /\ ag = NoAnalysis

SubmitSpec == SubmitInit /\ [][Next \/ SyncNext]_vars

\* Lists of two batches in which the second and the last game may repeat
\* the first, for the same or the other color, or have no url; the games
\* between them are cached.
SecondGames ==
    {Game(2), Game(1), [url |-> 1, player_color |-> "black"],
     [url |-> NoUrl, player_color |-> "white"]}

LastGames == {Game(BATCH_SIZE + 1), Game(1)}

CacheGameList(second, last) ==
    [g \in 1..(BATCH_SIZE + 1) |->
        IF g = 2 THEN second ELSE IF g = BATCH_SIZE + 1 THEN last ELSE Game(g)]

CacheInit ==
    \/ InitState(<<>>, [k \in {} |-> 0])
    \/ \E second \in SecondGames, last \in LastGames :
       \E uncached \in SUBSET {1, 2, BATCH_SIZE + 1} :
          /\ ~(second = Game(1) /\ last = Game(1))
          /\ InitState(CacheGameList(second, last),
                       InitCache(CacheGameList(second, last), uncached))

CacheNext ==
    \/ Next
    \/ AnalyzeCacheReadFault
    \/ \E w \in Workers : WorkerCacheReadFault(w) \/ WorkerCacheWriteFault(w)

\* The parallel backend on such lists, with cache commands that may fail.
CacheSpec == CacheInit /\ [][CacheNext]_vars

\* One StockfishEngine object from its construction on. The program's own
\* steps are taken when they can be; nothing makes the engine process
\* print.
EngineSpec ==
    /\ InitState(<<>>, [k \in {} |-> 0])
    /\ [][StockfishNext \/ EngineNext]_vars
    /\ WF_vars(StockfishNext)

\* The partition alone: lists of 1..MaxPartitionGames games, none cached.
PartitionInit ==
    \E n \in 1..MaxPartitionGames : InitState(GameList(n), [k \in {} |-> 0])

PartitionSpec == PartitionInit /\ [][AnalyzeQuickCheck]_vars

\* A mistake stored by an earlier analysis of a game that is not
\* submitted again.
OldMistake == Mistake(Game(MaxGames + 1))

ClientGameCounts == {1, BATCH_SIZE + 1}

ClientUncached == {1, BATCH_SIZE + 1}

\* analyzeAllGames has posted the games gs, none of which is marked as
\* processed, with one earlier mistake in localStorage.
PostedClient(gs) ==
    [NoClient EXCEPT !.pc = "post", !.isAnalyzing = TRUE,
                     !.analysisAbortController = "controller", !.stage = "init",
                     !.existingMistakes = <<OldMistake>>, !.mistakes = <<OldMistake>>,
                     !.games = gs, !.runs = 1]

\* The browser client in front of the backend: its POST /analyze arrives
\* at handleAnalyze, or the job it was given is one processed by
\* handleAsyncProcessing, and it is polling.
PostedInit ==
    \E n \in ClientGameCounts : \E uncached \in SUBSET ClientUncached :
        /\ ServerStart(GameList(n), InitCache(GameList(n), uncached), ArrayRequest)
        /\ ag = NoAnalysis
        /\ client = PostedClient(GameList(n))

ClientInit ==
    \/ PostedInit
    \/ /\ LegacyStart
       /\ client = SendStatus(PostedClient(games), "status", "none")

\* The backend serving the client: handleAnalyze on the non-empty list the
\* client posts (line 364 posts no empty list), the workers, the faults,
\* handleAsyncProcessing and handleStatus.
ParallelServing ==
    \/ AnalyzeQuickCheck
    \/ FastCreateJob
    \/ FastSave
    \/ CreateJob
    \/ \E w \in Workers : CreateBatch(w)
    \/ \E w \in Workers : InvokeWorker(w)
    \/ AnalyzeReturn
    \/ \E w \in Workers : WorkerStep(w)
    \/ Fault
    \/ ClientStatusServed

ServingNext ==
    \/ ParallelServing
    \/ LegacyNext

\* Calls of analyzeAllGames one after the other.
ClientSpec == ClientInit /\ [][ServingNext \/ ClientNext]_vars

\* One call of analyzeAllGames in front of the parallel backend.  The
\* browser runs a continuation of the client once the event it awaits has
\* arrived (an answer, a timer), and the backend answers a status request
\* it has received.
CancelFairSpec ==
    /\ PostedInit
    /\ [][ParallelServing \/ ClientRun]_vars
    /\ WF_vars(ClientProgress \/ ClientStatusServed)

(* ------------------------------ claims --------------------------------- *)

HasJob == Has(jobsTable, JobKey)

Job == jobsTable[JobKey]

HasBatch(w) == Has(jobsTable, BatchKey(w))

Batch(w) == jobsTable[BatchKey(w)]

\* C1: the trigger test of completeBatch passes for at most one worker of a
\* job, and for exactly one once every one of the job's T >= 1 batches has
\* made its increment: aggregateJobResults is entered exactly once.
C1_AggregationExactlyOnce ==
    /\ triggered \subseteq incremented
    /\ Cardinality(triggered) <= 1
    /\ (Len(finalBatches) >= 1 /\ incremented = Batches) => Cardinality(triggered) = 1

\* All three batches have incremented and the one that triggered the
\* aggregation is batch 0, not the batch dispatched last.
C1_Witness ==
    /\ Len(finalBatches) = 3
    /\ incremented = Batches
    /\ triggered = {0}

\* C2: a job completed by aggregation holds the lists the workers stored
\* in completeBatch, concatenated in batch index order 0..T-1, and
\* mistakesFound is the length of that concatenation.
C2_AggregateInIndexOrder ==
    (Len(finalBatches) >= 1 /\ HasJob /\ Job.status = "completed") =>
        /\ Job.mistakes = Flatten([i \in 1..Len(finalBatches) |-> stored[i - 1]])
        /\ Job.mistakesFound = Len(Job.mistakes)

\* A three-batch job aggregated by batch 0 (so batch 0 did not complete
\* first) in which every batch stored at least one mistake.
C2_Witness ==
    /\ Len(finalBatches) = 3
    /\ HasJob /\ Job.status = "completed"
    /\ triggered = {0}
    /\ \A w \in Batches : Len(stored[w]) > 0

\* The step of C3: completedBatches stays within 0..totalBatches, equals the
\* number of batches whose increment was applied, and a step changes it only by +1,
\* made by a worker at its increment that had not incremented before.
C3_CounterStep ==
    /\ HasJob' =>
          /\ 0 <= Job'.completedBatches
          /\ Job'.completedBatches <= Job'.totalBatches
          /\ Job'.completedBatches = Cardinality(incremented')
    /\ HasJob =>
          /\ HasJob'
          /\ Job'.completedBatches \in {Job.completedBatches, Job.completedBatches + 1}
          /\ Job'.completedBatches = Job.completedBatches + 1 =>
                \E w \in Batches :
                    /\ wpc[w] = "increment"
                    /\ w \notin incremented
                    /\ incremented' = incremented \cup {w}

\* C3: every step keeps completedBatches within 0..totalBatches and changes
\* it by at most the +1 of one batch's completeBatch.
C3_CounterMonotoneBounded == [][C3_CounterStep]_vars

\* The counter of a three-batch job has reached totalBatches.
C3_Witness ==
    /\ HasJob
    /\ Job.totalBatches = 3
    /\ Job.completedBatches = 3

\* C4: in a run without a fault (no failing store command, no engine that
\* fails to start) of a non-empty submission, the job eventually becomes
\* completed; a batch of cache hits only starts no engine and completes.
C4_EventuallyCompleted ==
    <>(Len(games) = 0 \/ (HasJob /\ Job.status = "completed"))

\* A three-batch job is completed without a fault, and batch 0, all of
\* whose games were cache hits, has incremented without starting an engine.
C4_Witness ==
    /\ faults = 0
    /\ Len(finalBatches) = 3
    /\ HasJob /\ Job.status = "completed"
    /\ engine[0] = "none" /\ 0 \in incremented
    /\ engine[1] = "quit"

\* C5: a batch item with status error belongs to a worker whose increment
\* of completedBatches was never applied.
C5_ErrorBatchNeverCounted ==
    \A w \in Batches :
        (HasBatch(w) /\ Batch(w).status = "error") => w \notin incremented

ErrorBatches == {w \in Batches : HasBatch(w) /\ Batch(w).status = "error"}

\* The step of C6: from the state in which a batch item has status error on,
\* the batch keeps that status and the job keeps status processing.
C6_ErrorStep ==
    ErrorBatches # {} =>
        /\ HasJob /\ Job.status = "processing"
        /\ HasJob' /\ Job'.status = "processing"
        /\ ErrorBatches \subseteq ErrorBatches'

\* C6: once a batch has status error, every step leaves the job processing.
C6_ErrorBatchBlocksAggregation == [][C6_ErrorStep]_vars

\* Batch 1 of a three-batch job ended with status error, the two other
\* workers have completed and incremented, and the job is still processing.
C6_Witness ==
    /\ Len(finalBatches) = 3
    /\ ErrorBatches = {1}
    /\ wpc[0] = "done" /\ wpc[2] = "done" /\ wpc[1] = "failed"
    /\ Job.completedBatches = 2
    /\ Job.status = "processing"

\* The step of C7: a job item is created with status processing; its status changes
\* only from processing to completed or error; once it is completed or
\* error, no step changes its status, mistakes, mistakesFound or
\* completedBatches.
C7_JobStep ==
    /\ (~HasJob /\ HasJob') => Job'.status = "processing"
    /\ HasJob =>
          /\ HasJob'
          /\ Job'.status # Job.status =>
                (Job.status = "processing" /\ Job'.status \in {"completed", "error"})
          /\ Job.status \in {"completed", "error"} =>
                /\ Job'.status = Job.status
                /\ Job'.mistakes = Job.mistakes
                /\ Job'.mistakesFound = Job.mistakesFound
                /\ Job'.completedBatches = Job.completedBatches

\* C7: every step respects processing -> completed | error and leaves a
\* completed or error job item as it is.
C7_TerminalJobImmutable == [][C7_JobStep]_vars

\* The job was completed by the aggregation while handleAnalyze had not yet
\* returned: a step of the program follows the terminal status.
C7_Witness ==
    /\ HasJob /\ Job.status = "completed"
    /\ Len(finalBatches) = 3
    /\ analyzePc = "dispatch"

InitialBatch(w) ==
    [batchIndex |-> w, status |-> "processing", gamesProcessed |-> 0,
     totalGames |-> Len(finalBatches[w + 1]), mistakesFound |-> 0, mistakes |-> <<>>]

\* C8: a batch item exists only after the job item; the worker of batch i
\* is invoked only after batch item i was written, and that item is
\* (processing, 0 games, no mistakes) until the worker runs; once a
\* response with a jobId has been returned the job item and the items of
\* all dispatched batches exist.
C8_RecordsBeforeWorkers ==
    /\ \A w \in Workers : HasBatch(w) => HasJob
    /\ \A w \in Workers : (chain[w] \in {"invoke", "done"} \/ wpc[w] # "idle") => HasBatch(w)
    /\ \A w \in Workers :
          (chain[w] = "invoke" \/ wpc[w] = "start") => Batch(w) = InitialBatch(w)
    /\ response.jobId => (HasJob /\ \A w \in Batches : HasBatch(w))

\* handleAnalyze has answered 202 for three batches and no worker has
\* taken a step yet: every batch item is there, still empty.
C8_Witness ==
    /\ response.statusCode = 202
    /\ Len(finalBatches) = 3
    /\ \A w \in Batches : wpc[w] = "start" /\ Batch(w) = InitialBatch(w)

BatchSizes == [i \in 1..Len(finalBatches) |-> Len(finalBatches[i])]

\* The batch size handleAnalyze settles on for n games.
ChosenSize(n) ==
    IF (n + BATCH_SIZE - 1) \div BATCH_SIZE <= MAX_PARALLEL_LAMBDAS
    THEN BATCH_SIZE
    ELSE (n + MAX_PARALLEL_LAMBDAS - 1) \div MAX_PARALLEL_LAMBDAS

\* C9: the batches handleAnalyze is about to dispatch for N >= 1 games are
\* at most MAX_PARALLEL_LAMBDAS, each non-empty and no longer than the
\* chosen size, and concatenated in index order they are the submitted
\* list; 45 games give 20, 20, 5 and 1200 games give 50 batches of 24.
C9_PartitionCoversInOrder ==
    analyzePc = "createJob" =>
        /\ Len(finalBatches) <= MAX_PARALLEL_LAMBDAS
        /\ \A i \in 1..Len(finalBatches) :
              /\ BatchSizes[i] >= 1
              /\ BatchSizes[i] <= ChosenSize(Len(games))
        /\ Flatten(finalBatches) = games
        /\ Len(games) = 45 => BatchSizes = <<20, 20, 5>>
        /\ Len(games) = 1200 => BatchSizes = [i \in 1..50 |-> 24]

\* 1200 games have been partitioned (the split by BATCH_SIZE gave 60).
C9_Witness ==
    /\ analyzePc = "createJob"
    /\ Len(games) = 1200
    /\ Len(finalBatches) = 50

AllCachedAtSubmit ==
    /\ Len(games) > 0
    /\ \A i \in 1..Len(games) : CacheHit(submitCache, games[i])

CachedAtSubmit ==
    Flatten([i \in 1..Len(games) |-> submitCache[CacheKey(games[i])].mistakes])

\* C10: when every submitted game had a cache hit, no batch item is ever
\* written, no worker invoked and no engine started; and when handleAnalyze
\* has returned (no store command having failed) the response is 200
\* completed with the cached mistakes in submission order, and the job item
\* is completed with the same list.
C10_FastPath ==
    AllCachedAtSubmit =>
        /\ \A w \in Workers :
              ~HasBatch(w) /\ chain[w] = "none" /\ wpc[w] = "idle" /\ engine[w] = "none"
        /\ (analyzePc = "returned" /\ faults = 0) =>
              /\ response = Response(200, TRUE, "completed", CachedAtSubmit)
              /\ HasJob
              /\ Job.status = "completed"
              /\ Job.mistakes = CachedAtSubmit
              /\ Job.mistakesFound = Len(CachedAtSubmit)

\* 41 cached games were submitted and handleAnalyze has returned their
\* eleven cached mistakes.
C10_Witness ==
    /\ AllCachedAtSubmit
    /\ Len(games) = 41
    /\ analyzePc = "returned"
    /\ faults = 0
    /\ Len(response.mistakes) = 11


(* ---------------------------- C11 .. C20 -------------------------------- *)

\* The submitted games for which handleAnalyze's cache held no entry.
UncachedAtSubmit ==
    SelectSeq(games, LAMBDA game : ~CacheHit(submitCache, game))

\* handleAnalyze took the slow path and has answered.
SlowPathReturned ==
    /\ Len(games) > 0
    /\ ~AllCachedAtSubmit
    /\ analyzePc = "returned"
    /\ faults = 0

\* C11: when at least one submitted game has no cache hit, the job is
\* created over the uncached games only: totalGames and the games of the
\* dispatched batches are exactly the submitted games without a cache hit,
\* and the response is 202 processing with the job id.
C11_JobOverUncachedOnly ==
    SlowPathReturned =>
        /\ response = Response(202, TRUE, "processing", <<>>)
        /\ HasJob
        /\ Job.totalGames = Len(UncachedAtSubmit)
        /\ Flatten(finalBatches) = UncachedAtSubmit


\* The batch items of the job the status request read.
PolledBatches == {w \in 0..(poll.job.totalBatches - 1) : HasBatch(w)}

RECURSIVE SumOf(_, _)
SumOf(batches, attr) ==
    IF batches = {} THEN 0
    ELSE LET w == CHOOSE x \in batches : TRUE
         IN  Batch(w)[attr] + SumOf(batches \ {w}, attr)

CompletedPolled == {w \in PolledBatches : Batch(w).status = "completed"}

Occurrences(list, x) == Cardinality({i \in 1..Len(list) : list[i] = x})

\* The list holds the mistakes of the batches of the set, in any order.
HoldsMistakesOf(list, batches) ==
    LET expected == Flatten([k \in 1..poll.job.totalBatches |->
                        IF (k - 1) \in batches THEN Batch(k - 1).mistakes ELSE <<>>])
    IN  /\ Len(list) = Len(expected)
        /\ \A i \in 1..Len(expected) :
              Occurrences(list, expected[i]) = Occurrences(expected, expected[i])

\* handleStatus answers for a job it read as processing.
StatusAnswersProcessing ==
    /\ poll.pc = "batches"
    /\ poll'.pc = "done"
    /\ poll.job.status = "processing"

StatusSumsBatches ==
    LET r == poll'.response
        chunks == StatusChunksFrom(StatusBatchKeys(poll.job), 0)
    IN  /\ r.currentGame = SumOf(PolledBatches, "gamesProcessed")
        /\ r.mistakesFound = SumOf(PolledBatches, "mistakesFound")
        /\ r.completedBatches = Cardinality(CompletedPolled)
        /\ HoldsMistakesOf(r.mistakes, CompletedPolled)
        /\ \A c \in 1..Len(chunks) : Len(chunks[c]) \in 1..BatchGetMaxKeys
        /\ Flatten(chunks) = StatusBatchKeys(poll.job)

BatchProgressInRange ==
    \A w \in Workers :
        HasBatch(w) => Batch(w).gamesProcessed \in 0..Batch(w).totalGames

BatchProgressStep ==
    \A w \in Workers :
        (HasBatch(w) /\ HasBatch(w)') =>
            Batch(w).gamesProcessed' >= Batch(w).gamesProcessed

\* C13: every batch item has 0 <= gamesProcessed <= totalGames in every
\* reachable state, and no step decreases gamesProcessed.
C13_BatchProgressBounded ==
    /\ BatchProgressInRange
    /\ [][BatchProgressInRange' /\ BatchProgressStep]_vars

\* A running worker has reported its second game.
C13_Witness ==
    \E w \in Workers :
        /\ HasBatch(w)
        /\ wpc[w] = "complete"
        /\ Batch(w).gamesProcessed = 2
        /\ Batch(w).totalGames = BATCH_SIZE

\* The attributes of a stored item that a step changes, adds or removes.
ChangedAttrs(key) ==
    {a \in DOMAIN jobsTable[key] \cup DOMAIN jobsTable'[key] :
        \/ a \notin DOMAIN jobsTable[key]
        \/ a \notin DOMAIN jobsTable'[key]
        \/ jobsTable[key][a] # jobsTable'[key][a]}

\* What a step may do to an item that exists.
FieldScopedStep(key) ==
    /\ key \in DOMAIN jobsTable'
    /\ DOMAIN jobsTable[key] \subseteq DOMAIN jobsTable'[key]
    /\ ChangedAttrs(key) \cap {"totalGames", "totalBatches", "batchIndex"} = {}
    /\ (key = JobKey /\ "completedBatches" \in ChangedAttrs(key)) =>
           ChangedAttrs(key) = {"completedBatches"}
    /\ (key # JobKey /\ "gamesProcessed" \in ChangedAttrs(key)) =>
           ChangedAttrs(key) \subseteq {"gamesProcessed", "mistakesFound"}

\* C14: updates of an existing job or batch item are field-scoped: the
\* completedBatches increment changes nothing else of the job item,
\* updateBatchProgress changes neither status nor mistakes of the batch item,
\* and no step rewrites a whole item that exists (no attribute is dropped,
\* the attributes written only at creation keep their values).
C14_FieldScopedUpdates ==
    [][\A key \in DOMAIN jobsTable : FieldScopedStep(key)]_vars

\* One of two batches has been counted on the job item while the worker of
\* the other has reported progress on its own item.
C14_Witness ==
    /\ HasJob
    /\ Job.completedBatches = 1
    /\ Job.totalBatches = 2
    /\ Job.totalGames = BATCH_SIZE + 1
    /\ \E w \in 0..1 :
          HasBatch(w) /\ Batch(w).status = "processing" /\ Batch(w).gamesProcessed = 1

\* The games of batch w that had / had no cache entry.  No other batch holds
\* them, so the worker's own cache check finds the same.
BatchCached(w) ==
    Flatten([k \in 1..Len(finalBatches[w + 1]) |->
        IF CacheHit(submitCache, finalBatches[w + 1][k])
        THEN submitCache[CacheKey(finalBatches[w + 1][k])].mistakes ELSE <<>>])

BatchUncached(w) ==
    SelectSeq(finalBatches[w + 1], LAMBDA game : ~CacheHit(submitCache, game))

\* A game of the worker's loop whose analysis threw: the loop has passed it
\* and cacheAnalysis (line 644) was not reached.
Threw(w, k) ==
    /\ k <= wLocal[w].i
    /\ ~CacheHit(cacheTable, wLocal[w].gamesToAnalyze[k])

\* The worker has left the loop over its games without an escaping error.
PastLoop(w) ==
    wpc[w] \in {"complete", "increment", "aggregate", "aggregateSave", "done"}

\* C15: a game whose analysis throws contributes no mistake and the later
\* games of the batch are still analyzed: past the loop the worker has
\* visited all its uncached games and holds the cached mistakes followed by
\* the mistakes of the games that did not throw; and a worker that ends so
\* has completed its batch item and incremented the counter.
C15_ThrowingGameSkipped ==
    \A w \in Workers :
        PastLoop(w) =>
            /\ wLocal[w].gamesToAnalyze = BatchUncached(w)
            /\ wLocal[w].i = Len(BatchUncached(w))
            /\ wLocal[w].allMistakes =
                 BatchCached(w) \o
                   Flatten([k \in 1..Len(BatchUncached(w)) |->
                      IF Threw(w, k) THEN <<>> ELSE GameMistakes(BatchUncached(w)[k])])
            /\ wpc[w] = "done" =>
                 /\ Batch(w).status = "completed"
                 /\ Batch(w).mistakes = wLocal[w].allMistakes
                 /\ w \in incremented

\* The analysis of game 1 (which holds a mistake) threw, game 2 was analyzed
\* after it, and the worker ended with a completed, counted batch.
C15_Witness ==
    \E w \in Workers :
        /\ wpc[w] = "done"
        /\ Len(wLocal[w].gamesToAnalyze) = 2
        /\ Threw(w, 1)
        /\ ~Threw(w, 2)
        /\ GameMistakes(wLocal[w].gamesToAnalyze[1]) # <<>>
        /\ Batch(w).status = "completed"
        /\ w \in incremented


\* The worker's invocation is over, or it is past the finally block of line
\* 658 (in completeBatch or in the catch block).
EngineReleasedAt(w) ==
    wpc[w] \in {"complete", "increment", "aggregate", "aggregateSave", "done",
                "catch", "failed", "crashed"}

EngineReleased ==
    \A w \in Workers :
        /\ EngineReleasedAt(w) => engine[w] # "running"
        /\ (wpc[w] \notin {"idle", "start"} /\ wLocal[w].gamesToAnalyze = <<>>) =>
               engine[w] = "none"

\* An engine process is started only by a worker that has started none.
EngineStartStep ==
    \A w \in Workers :
        (engine'[w] = "running" /\ engine[w] # "running") => engine[w] = "none"

\* C16: a batch worker starts at most one engine process, none when all
\* its games are cache hits, and an engine it started has been terminated
\* by quit when the worker leaves the processing of its games, normally or
\* through an escaping error, and so when the worker ends.
C16_EngineReleased ==
    /\ EngineReleased
    /\ [][EngineReleased' /\ EngineStartStep]_vars

\* updateBatchProgress failed while the engine was running: the error left
\* the loop, the engine was quit and the batch marked error.
C16_Witness ==
    \E w \in Workers :
        /\ wpc[w] = "failed"
        /\ engine[w] = "quit"
        /\ wLocal[w].i < Len(wLocal[w].gamesToAnalyze)


\* The half-move index of a mistake record: its move_sequence ends with it.
HalfMoveOf(record) == Len(record.move_sequence) - 1

BelongsToPlayer(i) == IF ag.player_color = "white" THEN i % 2 = 0 ELSE i % 2 = 1

\* The change from before to after, oriented to the analyzed player.
OrientedChange(before, after) ==
    IF ag.player_color = "white" THEN after - before ELSE before - after

RecordsWellFormed ==
    \A k \in 1..Len(ag.mistakes) :
        LET record == ag.mistakes[k]
            i == HalfMoveOf(record)
        IN  /\ i \in 0..(MOVES_TO_ANALYZE - 1)
            /\ BelongsToPlayer(i)
            /\ record.eval_drop <= -100
            /\ record.move_number = (i \div 2) + 1
            /\ record.move_sequence = SubSeq(ag.history, 1, i + 1)

\* analyzeGame has evaluated the position after half-move ag.i.
HalfMoveCompared == ag'.i = ag.i + 1

MistakeEmittedIff ==
    LET before == ag.prevEval
        after == ag'.prevEval
        expected == /\ BelongsToPlayer(ag.i)
                    /\ before # Null
                    /\ after # Null
                    /\ OrientedChange(before[1], after[1]) <= -100
    IN  IF expected
        THEN /\ Len(ag'.mistakes) = Len(ag.mistakes) + 1
             /\ SubSeq(ag'.mistakes, 1, Len(ag.mistakes)) = ag.mistakes
             /\ HalfMoveOf(ag'.mistakes[Len(ag'.mistakes)]) = ag.i
             /\ ag'.mistakes[Len(ag'.mistakes)].eval_drop =
                    OrientedChange(before[1], after[1])
        ELSE ag'.mistakes = ag.mistakes

\* C17: for a game of at least 14 half-moves, a mistake is emitted for
\* half-move i of the window exactly when i belongs to the analyzed player,
\* the evaluations before and after the move are both non-null and the
\* change oriented to the player is <= -100; every record has
\* eval_drop <= -100, move_number = floor(i/2) + 1 and the first i + 1 moves
\* as move_sequence.
C17_MistakeIff ==
    /\ RecordsWellFormed
    /\ [][RecordsWellFormed' /\ (HalfMoveCompared => MistakeEmittedIff)]_vars

\* White, 30 before and -80 after half-move 2: the one mistake of the game,
\* at move number 2 with eval_drop -110.
C17_Witness ==
    /\ ag.pc = "done"
    /\ ag.player_color = "white"
    /\ Len(ag.mistakes) = 1
    /\ ag.mistakes[1].move_number = 2
    /\ ag.mistakes[1].move_sequence = <<1, 2, 3>>
    /\ ag.mistakes[1].eval_before = 30
    /\ ag.mistakes[1].eval_after = -80
    /\ ag.mistakes[1].eval_drop = -110

\* C18: in every mistake record of the parallel backend eval_before and
\* eval_after are in the analyzed player's perspective, so that
\* eval_drop = eval_after - eval_before, for black as for white.
C18_DropIsAfterMinusBefore ==
    ag.backend = "parallel" =>
        \A k \in 1..Len(ag.mistakes) :
            ag.mistakes[k].eval_drop =
                ag.mistakes[k].eval_after - ag.mistakes[k].eval_before

\* C19: the evaluations analyzeGame holds and subtracts are in white's
\* perspective: the raw score, relative to the side to move, is negated
\* exactly when black is to move, in the synchronous backend as well as in
\* the parallel one.
C19_EvalsInWhitePerspective ==
    ag.prevEval = ag.prevWhite

\* C20: analyzeGame returns null, having asked the engine nothing, for a
\* move list that does not parse or has fewer than 14 half-moves, and a
\* list (possibly empty), never null, for a game of at least 14 half-moves.
C20_NullForShortGames ==
    IF ~ag.loaded \/ Len(ag.history) < 14
    THEN /\ ag.calls = 0
         /\ ag.pc = "done" => ag.returned = Null
    ELSE ag.pc = "done" => ag.returned = Some(ag.mistakes)

\* A parsed game of 13 half-moves was answered with null.
C20_Witness ==
    /\ ag.pc = "done"
    /\ ag.loaded
    /\ Len(ag.history) = MOVES_TO_ANALYZE - 1
    /\ ag.returned = Null

(* ------------------------------ C21 .. C30 ------------------------------- *)

\* The player's half-moves inside the analyzed window.
PlayerHalfMoves == {k \in playerMoveIndices(IsWhite) : k < Window}

\* C21: a null evaluation does not abort analyzeGame: a game that is
\* analyzed returns a list after all half-moves of the window were
\* evaluated (one evaluation of the start, one per half-move, one more per
\* half-move of the player), and the mistake checks skipped because their
\* before- or after-evaluation was null are never more than the null
\* evaluations seen.
C21_NullSuppressesOneCheck ==
    /\ ag.suppressed <= ag.nulls
    /\ (ag.pc = "done" /\ ag.loaded /\ ~TooShort(ag.history)) =>
           /\ ag.returned # Null
           /\ ag.i = Window
           /\ ag.calls = 1 + Window + Cardinality(PlayerHalfMoves)

\* One evaluation was null and one check was skipped, and the player's
\* last half-move of the window, later than the skipped one, was still
\* found to be a mistake.
C21_Witness ==
    /\ ag.pc = "done"
    /\ ag.nulls = 1
    /\ ag.suppressed = 1
    /\ Len(ag.mistakes) = 1
    /\ ag.mistakes[1].move_number = MOVES_TO_ANALYZE \div 2

MistakesOrdered ==
    \A k \in 1..(Len(ag.mistakes) - 1) :
        LET earlier == ag.mistakes[k].move_sequence
            later == ag.mistakes[k + 1].move_sequence
        IN  /\ ag.mistakes[k].move_number < ag.mistakes[k + 1].move_number
            /\ Len(earlier) < Len(later)
            /\ SubSeq(later, 1, Len(earlier)) = earlier

EmittedRecordsKept ==
    \A k \in 1..Len(ag.mistakes) :
        /\ k <= Len(ag'.mistakes)
        /\ ag'.mistakes[k] = ag.mistakes[k]

\* C22: the mistakes of one analyzeGame call are in increasing move order,
\* the move_sequence of each is a proper prefix of the next one's, and no
\* step of the analysis changes a record already emitted.
C22_MoveSequencesGrow ==
    /\ MistakesOrdered
    /\ [][MistakesOrdered' /\ EmittedRecordsKept]_vars

\* Two mistakes of white, at half-moves 2 and 6.
C22_Witness ==
    /\ ag.pc = "done"
    /\ Len(ag.mistakes) = 2
    /\ ag.mistakes[1].move_sequence = <<1, 2, 3>>
    /\ ag.mistakes[2].move_sequence = <<1, 2, 3, 4, 5, 6, 7>>

\* The step of analyzeGame that calls uciToSan.
TranslationStep == ag.pc = "loop" /\ ag'.pc = "move"

\* The replay stands at the moves of the game played so far, and a
\* translation made now would leave it there.
ReplayAtGame ==
    /\ ag.chess = SubSeq(ag.history, 1, ag.i)
    /\ \A uciMove \in {"legal", "illegal"} :
           uciToSan(uciMove, ag.chess).chess = ag.chess

\* C26: uciToSan leaves the replay as it found it, for a legal and for an
\* illegal coordinate move, so the replay always stands at the moves of the
\* game played so far and nothing else.
C26_ReplayRestored ==
    /\ ReplayAtGame
    /\ [][ReplayAtGame' /\ (TranslationStep => ag'.chess = ag.chess)]_vars

\* A legal best move was translated and an illegal one returned as it was,
\* each before a half-move that was then played and found to be a mistake.
C26_Witness ==
    /\ ag.pc = "done"
    /\ Len(ag.mistakes) = 2
    /\ ag.mistakes[1].best_move = Some("san")
    /\ ag.mistakes[2].best_move = Some("illegal")
    /\ ag.chess = ag.history

\* The score that the info lines printed so far leave pending: that of the
\* last one that has a score and reports a depth of at least 18.
RECURSIVE LastScoreAtDepth(_)
LastScoreAtDepth(lines) ==
    IF lines = <<>> THEN Null
    ELSE LET line == lines[Len(lines)]
         IN  IF line.score # Null /\ line.depth >= 18
             THEN Some(ScoreOf(line.score))
             ELSE LastScoreAtDepth(SubSeq(lines, 1, Len(lines) - 1))

\* The engine has printed an info line that reports a depth below 18.
ShallowLineStep ==
    /\ Len(stockfish'.stdout) = Len(stockfish.stdout) + 1
    /\ stockfish'.stdout[Len(stockfish'.stdout)].depth < 18

BestmoveStep ==
    /\ stockfish.stdin # <<>>
    /\ Head(stockfish.stdin) = "go"
    /\ stockfish'.stdin = Tail(stockfish.stdin)

PendingResultKept ==
    /\ stockfish'.evalScore = stockfish.evalScore
    /\ stockfish'.bestMove = stockfish.bestMove
    /\ stockfish'.currentDepth = stockfish.currentDepth

\* What getEvaluation holds, and what it resolved with, is the score of the
\* last info line of sufficient depth.
HoldsLastScoreAtDepth ==
    /\ stockfish.onMessage = "getEvaluation" =>
           stockfish.evalScore = LastScoreAtDepth(stockfish.stdout)
    /\ stockfish.resolved # Null =>
           stockfish.resolved[1].eval =
               NormalizedEval(LastScoreAtDepth(stockfish.stdout), stockfish.sideToMove)

\* C23: while getEvaluation waits, the score it holds is that of the last
\* info line with a score and a depth of at least 18, or null when there
\* was none; a line of smaller depth changes nothing of the pending result;
\* the bestmove line resolves the call, with that score (negated when black
\* is to move) or with null.
C23_DepthFilter ==
    /\ HoldsLastScoreAtDepth
    /\ [][/\ HoldsLastScoreAtDepth'
          /\ ShallowLineStep => PendingResultKept
          /\ BestmoveStep => stockfish'.resolved # Null]_vars

\* The search printed cp 30 and then mate -1 at depth 18, then cp 30 at
\* depth 17, with black to move: resolved with 9900.
C23_Witness ==
    /\ stockfish.resolved # Null
    /\ stockfish.sideToMove = "b"
    /\ Len(stockfish.stdout) = 3
    /\ stockfish.stdout[1].depth = 18 /\ stockfish.stdout[1].score = <<"cp", 30>>
    /\ stockfish.stdout[2].depth = 18 /\ stockfish.stdout[2].score = <<"mate", -1>>
    /\ stockfish.stdout[3].depth = 17 /\ stockfish.stdout[3].score = <<"cp", 30>>
    /\ stockfish.resolved[1].eval = Some(9900)

\* C24: init() settles: a call that is pending is later resolved or
\* rejected, whatever the engine process does.
C24_InitSettles ==
    (stockfish.init = "pending") ~> (stockfish.init \in {"resolved", "rejected"})

\* The mate distances of the lines that the pending evaluation accepted.
AcceptedMates ==
    {stockfish.stdout[k].score[2] :
        k \in {j \in 1..Len(stockfish.stdout) :
                  /\ stockfish.stdout[j].score # Null
                  /\ stockfish.stdout[j].score[1] = "mate"
                  /\ stockfish.stdout[j].depth >= 18}}

Abs(x) == IF x < 0 THEN -x ELSE x

\* C25: `score mate n` converts to 10000 - 100 n for n > 0 and to
\* -10000 - 100 n for n <= 0; of two mates the more distant gives the
\* smaller magnitude, mate n and mate -n give opposite values, and for
\* 1 <= |n| < 100 the result has the sign of n.
C25_MateConversion ==
    /\ \A n \in AcceptedMates :
          /\ MateScore(n) = IF n > 0 THEN 10000 - 100 * n ELSE -10000 - 100 * n
          /\ MateScore(-n) = -MateScore(n)
          /\ (1 <= Abs(n) /\ Abs(n) < 100) => (MateScore(n) > 0 <=> n > 0)
    /\ \A n, m \in AcceptedMates :
          Abs(n) < Abs(m) => Abs(MateScore(n)) > Abs(MateScore(m))

\* A request without a list of at least one game.
NoGames == request.games # "array" \/ Len(games) = 0

AnalysisStep(w) == wpc[w] = "analyze" /\ wpc'[w] = "progress"

CurrentGame(w) == wLocal[w].gamesToAnalyze[wLocal[w].i + 1]

\* The worker of batch w has looked up the games of its batch.
CacheCheckStep(w) == wpc[w] = "start" /\ wpc'[w] # "start"

\* The cache holds an entry for the game and its color.
Stored(game) ==
    game.url # 0 /\ <<game.url, game.player_color>> \in DOMAIN cacheTable

StoredMistakes(gs) ==
    Flatten([k \in 1..Len(gs) |->
        IF Stored(gs[k])
        THEN cacheTable[<<gs[k].url, gs[k].player_color>>].mistakes ELSE <<>>])

\* The worker of batch v has analyzed the game: its loop has passed it, and
\* the game's entry is in the cache or its mistake among the worker's.
AnalyzedBy(v, game) ==
    \E k \in 1..Len(wLocal[v].gamesToAnalyze) :
        /\ wLocal[v].gamesToAnalyze[k] = game
        /\ k <= wLocal[v].i + (IF wpc[v] = "progress" THEN 1 ELSE 0)
        /\ \/ Stored(game)
           \/ /\ GameMistakes(game) # <<>>
              /\ Occurrences(wLocal[v].allMistakes, GameMistakes(game)[1]) > 0

\* C27: a (game, color) pair that a worker has analyzed is not analyzed
\* again: no worker calls analyzeGame on it later.
C27_AnalyzedOnce ==
    [][\A w \in Workers :
          AnalysisStep(w) =>
              ~\E v \in Workers : AnalyzedBy(v, CurrentGame(w))]_vars

\* C27, amended: a lookup that succeeds after the entry of a (game, color)
\* pair was written answers with the stored list and the game is not queued
\* for the engine, in a worker as in handleAnalyze's quick check; a game
\* without such an entry, the same game for the other color included, is
\* queued.
C27_AnsweredFromCache ==
    [][cacheFaults' = cacheFaults =>
          /\ \A w \in Workers :
                CacheCheckStep(w) =>
                    /\ wLocal'[w].gamesToAnalyze =
                           SelectSeq(finalBatches[w + 1], LAMBDA game : ~Stored(game))
                    /\ wLocal'[w].allMistakes = StoredMistakes(finalBatches[w + 1])
          /\ (/\ analyzePc = "start" /\ analyzePc' # "start"
              /\ games # <<>>
              /\ \A k \in 1..Len(games) : Stored(games[k])) =>
                    /\ analyzePc' = "fastCreateJob"
                    /\ cachedMistakes' = StoredMistakes(games)]_vars

\* Game 1 was not cached when the request arrived; the worker of the first
\* batch analyzed and stored it, and the worker of the second batch, whose
\* only game is game 1 again, was answered from the cache.
C27_Witness ==
    /\ Len(finalBatches) = 2
    /\ finalBatches[2] = <<Game(1)>>
    /\ ~Has(submitCache, <<1, "white">>)
    /\ wpc[1] = "complete"
    /\ wLocal[1].gamesToAnalyze = <<>>
    /\ wLocal[1].allMistakes = <<Mistake(Game(1))>>

\* Two lists hold the same records, in any order.
SameMistakes(list, expected) ==
    /\ Len(list) = Len(expected)
    /\ \A i \in 1..Len(expected) :
          Occurrences(list, expected[i]) = Occurrences(expected, expected[i])

AnalyzedAfresh(gs) == Flatten([k \in 1..Len(gs) |-> GameMistakes(gs[k])])

\* While only cache commands have failed, nothing has failed: no worker is
\* in its catch block, no batch or job is marked error, no 500 was returned.
NothingFailed ==
    faults = 0 =>
        /\ response.statusCode # 500
        /\ HasJob => Job.status # "error"
        /\ \A w \in Workers :
              /\ wpc[w] # "catch"
              /\ HasBatch(w) => Batch(w).status # "error"

\* A step in which a cache command failed.
CacheFaultStep ==
    /\ analyzePc = "start" =>
          /\ analyzePc' = "createJob"
          /\ response' = response
    /\ \A w \in Workers :
          /\ CacheCheckStep(w) =>
                /\ wpc'[w] = "init"
                /\ SameMistakes(wLocal'[w].allMistakes \o
                                    AnalyzedAfresh(wLocal'[w].gamesToAnalyze),
                                AnalyzedAfresh(finalBatches[w + 1]))
          /\ AnalysisStep(w) =>
                /\ wLocal'[w].allMistakes =
                       wLocal[w].allMistakes \o GameMistakes(CurrentGame(w))
                /\ wLocal'[w].i = wLocal[w].i
    /\ jobsTable' = jobsTable

\* C28: a cache read that fails has the effect of a miss and a cache write
\* that fails has none: handleAnalyze goes on to create the job, the worker
\* goes on with the games of its batch and holds for them the mistakes that
\* their analysis gives, and no failure of a cache command puts a worker in
\* its catch block, marks a batch or the job as error or returns a 500.
C28_CacheFaultsSwallowed ==
    /\ NothingFailed
    /\ [][NothingFailed' /\ (cacheFaults' # cacheFaults => CacheFaultStep)]_vars

\* The job was completed in a run in which a cache command, and nothing
\* else, failed.
C28_Witness ==
    /\ cacheFaults = 1
    /\ faults = 0
    /\ HasJob
    /\ Job.status = "completed"

\* C30: analyzeGame is never called on a game whose url is missing or
\* empty.
C30_UrlRequired ==
    [][\A w \in Workers : AnalysisStep(w) => CurrentGame(w).url # 0]_vars

(* ------------------------------ C31 .. C37 ------------------------------- *)

TerminalBatches == {w \in Workers : HasBatch(w) /\ Batch(w).status \in {"completed", "error"}}

\* The step of C33: a batch item whose status is completed or error keeps
\* that status.
C33_BatchStep ==
    \A w \in TerminalBatches : HasBatch(w)' /\ Batch(w)'.status = Batch(w).status

\* C33: once a batch item has status completed or error, no step changes
\* its status; a completed batch is never marked error afterwards.
C33_TerminalBatchImmutable == [][C33_BatchStep]_vars

\* aggregateJobResults' GetCommand for one batch item, and its final command.
AggregateReadStep(w) == wpc[w] = "aggregate" /\ wAgg'[w].i = wAgg[w].i + 1

AggregateSaveStep(w) == wpc[w] = "aggregateSave" /\ wpc'[w] = "done"

\* The batch item read is the one its worker left: completed, holding the
\* list handed to completeBatch, by a worker whose increment was applied.
ReadsFinalRecord(w) ==
    LET i == wAgg[w].i
    IN  /\ HasBatch(i)
        /\ Batch(i).status = "completed"
        /\ i \in incremented
        /\ Batch(i).mistakes = stored[i]
        /\ wAgg'[w].allMistakes = wAgg[w].allMistakes \o stored[i]

\* C35: every batch item aggregateJobResults reads has status completed and
\* holds its worker's final mistake list, and the aggregated list holds the
\* lists of all batches.
C35_AggregationReadsCompleted ==
    [][\A w \in Workers :
          /\ AggregateReadStep(w) => ReadsFinalRecord(w)
          /\ AggregateSaveStep(w) =>
                Job'.mistakes = Flatten([i \in 1..Len(finalBatches) |-> stored[i - 1]])]_vars

\* Batch 0 made the last increment of a three-batch job and has read all
\* three batch items, each of which holds a mistake; the job item is still
\* processing.
C35_Witness ==
    /\ Len(finalBatches) = 3
    /\ wpc[0] = "aggregateSave"
    /\ wAgg[0].i = 3
    /\ Job.status = "processing"
    /\ \A w \in Batches : Len(stored[w]) > 0

\* C37: a batch item with status completed has gamesProcessed equal to
\* its totalGames.
C37_CompletedBatchProcessedAll ==
    \A w \in Workers :
        (HasBatch(w) /\ Batch(w).status = "completed") =>
            Batch(w).gamesProcessed = Batch(w).totalGames

\* The `go` commands the engine has not answered with `bestmove`: one for
\* every getEvaluation whose promise is unresolved.
GoCommands(self) == {k \in 1..Len(self.stdin) : self.stdin[k] = "go"}

Outstanding == Cardinality(GoCommands(stockfish))

EvaluationCallStep == stockfish'.calls = stockfish.calls + 1

\* At most one request is outstanding, and the installed handler is the
\* closure of that request, whose promise is unresolved.
OneOutstanding ==
    /\ Outstanding <= 1
    /\ Outstanding = 1 =>
          /\ stockfish.onMessage = "getEvaluation"
          /\ stockfish.resolved = Null

\* C34: getEvaluation is called only when no request is outstanding on the
\* engine, at most one request is outstanding in every state, and a
\* bestmove line answers the one `go` command outstanding and resolves the
\* request that sent it.
C34_OneOutstandingRequest ==
    /\ OneOutstanding
    /\ [][/\ OneOutstanding'
          /\ EvaluationCallStep => (Outstanding = 0 /\ Outstanding' = 1)
          /\ BestmoveStep =>
                /\ Outstanding = 1 /\ Outstanding' = 0
                /\ stockfish.resolved = Null /\ stockfish'.resolved # Null
                /\ stockfish'.calls = stockfish.calls]_vars

\* The second evaluation on one engine is outstanding: the first was
\* resolved by its bestmove line, and the engine is searching again.
C34_Witness ==
    /\ stockfish.calls = 2
    /\ Outstanding = 1
    /\ stockfish.resolved = Null
    /\ Len(stockfish.stdout) >= 1

\* cancelAnalysis was called in this run and pollForResults has not
\* returned yet.
CancelledWhilePolling ==
    /\ client.aborted
    /\ client.pc \in {"status", "save", "wait", "finalSave", "partial", "partialSave"}

\* pollForResults returns what fetchPartialResults gave it.
CancelReturnStep == client.pc = "partialSave" /\ client'.pc = "returned"

\* The mistakes of the answer to fetchPartialResults' request, none when
\* the request was not answered with 200.
AnsweredMistakes ==
    IF poll.pc = "done" /\ Ok(poll.response.statusCode) THEN poll.response.mistakes
    ELSE <<>>

\* A step of the cancelled client writes nothing on the backend.
NothingStopped ==
    (client.aborted /\ client' # client /\ client'.runs = client.runs) =>
        UNCHANGED <<jobsTable, cacheTable, chain, wpc, wLocal, wAgg, engine, legacy>>

AnalysisEnded == client.pc = "returned" /\ ~client.isAnalyzing

WaitsAfterTerminal ==
    /\ client.pc = "wait"
    /\ poll.pc = "done"
    /\ Ok(poll.response.statusCode)
    /\ poll.response.status \in {"completed", "error"}

\* The poll loop sends one more status request.
PollsAgain ==
    /\ client.pc = "wait"
    /\ client.isAnalyzing
    /\ client'.pc = "status"

\* C31: pollForResults stops polling once a status answer reports a
\* terminal job status: after a completed or error answer it sends no
\* further status request of the loop.
C31_StopsAtTerminalStatus == [][WaitsAfterTerminal => ~PollsAgain]_vars

\* Two records of the stored collection are the same mistake: same game,
\* player colour and half-move.
SameMistake(a, b) ==
    /\ a.game_url = b.game_url
    /\ a.player_color = b.player_color
    /\ a.move_number = b.move_number

\* C36: the locally stored mistake collection never holds the same mistake
\* (same game, player colour and half-move) twice, across analyse, cancel
\* and re-analyse runs.
C36_NoDuplicateMistakes ==
    \A i, j \in 1..Len(client.mistakes) :
        SameMistake(client.mistakes[i], client.mistakes[j]) => i = j

============================================================================
